---- MODULE Spec2Model ----
(***************************************************************************)
(* Tag ranking and scoring engine of the resale index: the price impact    *)
(* scorer, the exclusion and verbosity classifiers and both variants of    *)
(* rankTags (src/lib/tag-ranking.ts, and the similarity / polarity variant *)
(* kept in src/unnamed/part_002).                                          *)
(*                                                                         *)
(* A JavaScript string is a sequence of one-character strings.  A number   *)
(* that need not be an integer (the parsed estimate, a percentage) is a    *)
(* fraction [num, den] with den > 0, and every comparison of the code is    *)
(* made on the cross-multiplied integers.  An optional field of a Tag is a *)
(* field that the record has or has not.                                   *)
(***************************************************************************)
EXTENDS Integers, Sequences, FiniteSets, TLC

VARIABLES
  candidates,   \* rankTags: the unselectedTags argument (an array of Tag)
  selectedTags, \* rankTags: the selectedTags argument
  label,        \* rankTags: the currentEstimateString argument
  origEstimate, \* rankTags: originalBrandEstimate (0 models undefined and 0 alike)
  sortBy,       \* rankTags: 'smart' | 'listing_count'
  variant,      \* which engine ran: "pure" (lib/tag-ranking.ts) or "sim" (part_002)
  out,          \* the array rankTags returned
  pc,           \* "input" while the call is being prepared, "done" after it returned
  pb,           \* price scorer: the currentEstimate the calls are made with
  phist,        \* price scorer: the last two calls, latest first, as [price, score]
  simStr1,      \* similarity scorer: the first string
  simStr2,      \* similarity scorer: the second string
  similarity,   \* <<calculateSimilarity(simStr1, simStr2)>> once it was called, else <<>>
  swapped,      \* <<calculateSimilarity(simStr2, simStr1)>> once it was called, else <<>>
  penalty,      \* <<calculateSimilarityPenalty(simStr1, selectedTags)>> once called, else <<>>
  prev,         \* rankTags: <<the arguments and the result of the call before the latest>>
  exclName,     \* isTagExcluded: the name it is called with
  excluded,     \* <<isTagExcluded(exclName)>> once it was called, else <<>>
  heap,         \* rankTags on the heap: the arrays and the objects, each named by its index
  given,        \* what the caller put into the two argument arrays, as values
  returned,     \* the array the latest call on the heap returned, 0 before the first
  allocated,    \* the number of objects there were when the latest call began
  heapCalls,    \* the number of calls made on the heap
  hook,         \* the hook in use: "useQueryState" or "useTagSelection"
  brand,        \* query.brand, or brand of useTagSelection
  includedTags, \* query.includedTags, or selectedTags of useTagSelection
  excludedTags, \* query.excludedTags, or excludedTags of useTagSelection
  results,      \* results of useQueryState
  inflight,     \* the queries whose request has not been answered
  lastOp        \* the latest operation on the selection and its argument

vars == <<candidates, selectedTags, label, origEstimate, sortBy, variant, out, pc, pb, phist,
          simStr1, simStr2, similarity, swapped, penalty, prev, exclName, excluded,
          heap, given, returned, allocated, heapCalls,
          hook, brand, includedTags, excludedTags, results, inflight, lastOp>>

rankVars == <<candidates, selectedTags, label, origEstimate, sortBy, variant, out, pc>>

priceVars == <<pb, phist>>

simVars == <<simStr1, simStr2, similarity, swapped, penalty>>

exclVars == <<exclName, excluded>>

heapVars == <<heap, given, returned, allocated, heapCalls>>

hookVars == <<hook, brand, includedTags, excludedTags, results, inflight, lastOp>>

(***************************************************************************)
(* Numbers                                                                 *)
(***************************************************************************)
Abs(x) == IF x < 0 THEN -x ELSE x

Max(a, b) == IF a >= b THEN a ELSE b

Min(a, b) == IF a <= b THEN a ELSE b

Sign(x) == IF x < 0 THEN -1 ELSE IF x > 0 THEN 1 ELSE 0

Rat(n, d) == [num |-> n, den |-> d]

RECURSIVE Pow10(_)
Pow10(k) == IF k = 0 THEN 1 ELSE 10 * Pow10(k - 1)

(***************************************************************************)
(* Strings                                                                 *)
(***************************************************************************)
Digits == {"0", "1", "2", "3", "4", "5", "6", "7", "8", "9"}

LowerLetters ==
  <<"a", "b", "c", "d", "e", "f", "g", "h", "i", "j", "k", "l", "m",
    "n", "o", "p", "q", "r", "s", "t", "u", "v", "w", "x", "y", "z">>

UpperLetters ==
  <<"A", "B", "C", "D", "E", "F", "G", "H", "I", "J", "K", "L", "M",
    "N", "O", "P", "Q", "R", "S", "T", "U", "V", "W", "X", "Y", "Z">>

Range(s) == {s[i] : i \in DOMAIN s}

AZ == Range(LowerLetters)

\* \s of a regular expression, and the characters trim() strips
WhiteSpace == {" ", "\t"}

\* \w of a regular expression
WordChars == AZ \cup Range(UpperLetters) \cup Digits \cup {"_"}

DigitChars == <<"0", "1", "2", "3", "4", "5", "6", "7", "8", "9">>

DigitValue(c) == CHOOSE v \in 0..9 : DigitChars[v + 1] = c

DigitChar(v) == DigitChars[v + 1]

\* the lower-case letter of each upper-case letter
LowerCaseOf ==
  [c \in Range(UpperLetters) |->
     LowerLetters[CHOOSE i \in DOMAIN UpperLetters : UpperLetters[i] = c]]
    @@ ("Æ" :> "æ" @@ "Ø" :> "ø" @@ "Å" :> "å")

toLowerCaseChar(c) == IF c \in DOMAIN LowerCaseOf THEN LowerCaseOf[c] ELSE c

\* the sequence with the elements f[1], ..., f[Len(f)] of the function f
AsSeq(f) == SubSeq(f, 1, Len(f))

\* the one letter here whose lower case is two code units, i and U+0307; both are
\* written by their code points
CapitalIWithDot == "U+0130"

CombiningDot == "U+0307"

\* String.prototype.toLowerCase
RECURSIVE lowerCaseUnits(_)
lowerCaseUnits(s) ==
  IF s = <<>> THEN <<>>
  ELSE IF Head(s) = CapitalIWithDot THEN <<"i", CombiningDot>> \o lowerCaseUnits(Tail(s))
  ELSE <<toLowerCaseChar(Head(s))>> \o lowerCaseUnits(Tail(s))

toLowerCase(s) ==
  IF \A i \in DOMAIN s : s[i] # CapitalIWithDot
  THEN AsSeq([i \in DOMAIN s |-> toLowerCaseChar(s[i])])
  ELSE lowerCaseUnits(s)

RECURSIVE trimStart(_)
trimStart(s) == IF s # <<>> /\ Head(s) \in WhiteSpace THEN trimStart(Tail(s)) ELSE s

RECURSIVE trimEnd(_)
trimEnd(s) ==
  IF s # <<>> /\ s[Len(s)] \in WhiteSpace THEN trimEnd(SubSeq(s, 1, Len(s) - 1)) ELSE s

trim(s) == trimEnd(trimStart(s))

\* String.prototype.includes
includes(s, sub) ==
  \E i \in 1..(Len(s) - Len(sub) + 1) : SubSeq(s, i, i + Len(sub) - 1) = sub

\* Array.prototype.includes
arrayIncludes(arr, x) == \E i \in DOMAIN arr : arr[i] = x

(***************************************************************************)
(* Regular expressions of the exclusion test.  A pattern is a sequence of  *)
(* segments, each a character class taken once or one-or-more times        *)
(* (plus), anchored at the start (^) and at the end ($) or not.            *)
(***************************************************************************)
One(set) == [set |-> set, plus |-> FALSE]

Plus(set) == [set |-> set, plus |-> TRUE]

Lit(s) == AsSeq([i \in DOMAIN s |-> One({s[i]})])

Re(atStart, segs, atEnd) == [start |-> atStart, segs |-> segs, end |-> atEnd]

RECURSIVE MatchFrom(_, _, _, _)
MatchFrom(s, i, segs, atEnd) ==
  IF segs = <<>>
  THEN (~atEnd) \/ i = Len(s) + 1
  ELSE /\ i <= Len(s)
       /\ s[i] \in Head(segs).set
       /\ \/ MatchFrom(s, i + 1, Tail(segs), atEnd)
          \/ Head(segs).plus /\ MatchFrom(s, i + 1, segs, atEnd)

\* RegExp.prototype.test
test(re, s) ==
  IF re.start
  THEN MatchFrom(s, 1, re.segs, re.end)
  ELSE \E i \in 1..(Len(s) + 1) : MatchFrom(s, i, re.segs, re.end)

(***************************************************************************)
(* Exclusion test (src/lib/exclusions.ts)                                  *)
(***************************************************************************)
EXCLUDED_TAGS == <<
  <<"s","t","r">>, <<"s","t","ø","r","r","e","l","s","e">>, <<"s","i","z","e">>,
  <<"s","t","r","l">>, <<"s">>, <<"m">>, <<"l">>, <<"x","l">>, <<"x","x","l">>, <<"x","s">>,
  <<"x","x","s">>, <<"3","5">>, <<"3","5",".","5">>, <<"3","6">>, <<"3","6",".","5">>,
  <<"3","7">>, <<"3","7",".","5">>, <<"3","8">>, <<"3","8",".","5">>, <<"3","9">>,
  <<"3","9",".","5">>, <<"4","0">>, <<"4","0",".","5">>, <<"4","1">>, <<"4","1",".","5">>,
  <<"4","2">>, <<"4","2",".","5">>, <<"4","3">>, <<"4","3",".","5">>, <<"4","4">>,
  <<"4","4",".","5">>, <<"4","5">>, <<"4","5",".","5">>, <<"4","6">>, <<"4","6",".","5">>,
  <<"4","7">>, <<"4","7",".","5">>, <<"4","8">>, <<"4","8",".","5">>, <<"4","9">>, <<"5","0">>,
  <<"3","6","5">>, <<"3","7","5">>, <<"3","8","5">>, <<"3","9","5">>, <<"4","0","5">>,
  <<"4","1","5">>, <<"4","2","5">>, <<"4","3","5">>, <<"4","4","5">>, <<"4","5","5">>,
  <<"s","t","r"," ","3","5">>, <<"s","t","r"," ","3","6">>, <<"s","t","r"," ","3","7">>,
  <<"s","t","r"," ","3","8">>, <<"s","t","r"," ","3","9">>, <<"s","t","r"," ","4","0">>,
  <<"s","t","r"," ","4","1">>, <<"s","t","r"," ","4","2">>, <<"s","t","r"," ","4","3">>,
  <<"s","t","r"," ","4","4">>, <<"s","t","r"," ","4","5">>, <<"s","t","r"," ","4","6">>,
  <<"s","t","r"," ","4","7">>, <<"s","t","r"," ","4","8">>, <<"s","t","r"," ","s">>,
  <<"s","t","r"," ","m">>, <<"s","t","r"," ","l">>, <<"s","t","r"," ","x","l">>,
  <<"s","t","r"," ","x","x","l">>, <<"s","t","r"," ","x","s">>, <<"s","t","r"," ","3","6","5">>,
  <<"s","t","r"," ","3","7","5">>, <<"s","t","r"," ","3","8","5">>,
  <<"s","t","r"," ","3","9","5">>, <<"s","t","r"," ","4","0","5">>,
  <<"s","t","r"," ","4","1","5">>, <<"s","t","r"," ","4","2","5">>,
  <<"s","t","r"," ","4","3","5">>, <<"s","t","r"," ","4","4","5">>, <<"s","m","a","l","l">>,
  <<"m","e","d","i","u","m">>, <<"l","a","r","g","e">>,
  <<"e","x","t","r","a"," ","l","a","r","g","e">>, <<"s","k","o"," ","s","t","r">>,
  <<"f","o","t","b","a","l","l","s","k","o"," ","s","t","r">>,
  <<"j","o","g","g","e","s","k","o"," ","s","t","r">>,
  <<"t","r","e","n","i","n","g","s","s","k","o"," ","s","t","r">>, <<"i">>, <<"p","å">>,
  <<"t","i","l">>, <<"f","r","a">>, <<"m","e","d">>, <<"u","t","e","n">>, <<"o","g">>,
  <<"e","l","l","e","r">>, <<"s","o","m">>, <<"a","v">>, <<"f","o","r">>, <<"n","y","e">>,
  <<"n","y">>, <<"b","r","u","k","t">>, <<"p","e","n","t">>, <<"g","o","d","t">>,
  <<"l","i","t","e">>, <<"h","e","l","t">>, <<"f","i","n">>, <<"f","l","o","t","t">>,
  <<"p","e","n">>, <<"s","e","l","g","e","s">>, <<"k","j","ø","p","t">>, <<"k","r">>,
  <<"n","o","k">>, <<"p","r","i","s">>, <<"b","i","l","l","i","g">>, <<"d","y","r">>,
  <<"h","e","r","r","e">>, <<"d","a","m","e">>, <<"b","a","r","n">>, <<"j","e","n","t","e">>,
  <<"g","u","t","t">>, <<"u","n","i","s","e","x">>, <<"v","o","k","s","e","n">>,
  <<"b","a","b","y">>, <<"j","u","n","i","o","r">>, <<"1">>, <<"2">>, <<"3">>, <<"4">>, <<"5">>,
  <<"6">>, <<"7">>, <<"8">>, <<"9">>, <<"1","0">>, <<"1","1">>, <<"1","2">>, <<"2","0">>,
  <<"2","1">>, <<"2","2">>, <<"2","3">>, <<"2","4">>, <<"2","5">>, <<"3","0">>, <<"5","0">>,
  <<"1","0","0">>, <<"2","0","0">>, <<"5","0","0">>, <<"1","0","0","0">>,
  <<"s","v","a","r","t">>, <<"h","v","i","t">>, <<"b","l","å">>, <<"r","ø","d">>,
  <<"g","r","ø","n","n">>, <<"g","u","l">>, <<"r","o","s","a">>, <<"l","i","l","l","a">>,
  <<"g","r","å">>, <<"b","r","u","n">>, <<"o","r","a","n","g","e">>, <<"b","l","a","c","k">>,
  <<"w","h","i","t","e">>, <<"b","l","u","e">>, <<"r","e","d">>, <<"g","r","e","e","n">>,
  <<"y","e","l","l","o","w">>, <<"p","i","n","k">>, <<"p","u","r","p","l","e">>,
  <<"g","r","a","y">>, <<"g","r","e","y">>, <<"b","r","o","w","n">>,
  <<"o","r","a","n","g","e">>, <<"n","a","v","y">>, <<"b","e","i","g","e">>,
  <<"c","r","e","a","m">>, <<"g","o","l","d">>, <<"s","i","l","v","e","r">>, <<"s","t","k">>,
  <<"p","a","k">>, <<"s","e","t","t">>, <<"p","a","r">>, <<"p","a","k","k","e">>,
  <<"b","u","n","d","l","e">>, <<"l","o","t">>, <<"1","s","t","k">>, <<"2","s","t","k">>,
  <<"3","s","t","k">>, <<"4","s","t","k">>, <<"5","s","t","k">>, <<"u","b","r","u","k","t">>,
  <<"b","r","u","k","t">>, <<"s","l","i","t","t">>, <<"ø","d","e","l","a","g","t">>,
  <<"r","e","p","a","r","e","r","t">>, <<"v","i","n","t","a","g","e">>, <<"r","e","t","r","o">>,
  <<"n","e","w">>, <<"u","s","e","d">>, <<"w","o","r","n">>, <<"d","a","m","a","g","e","d">>,
  <<"b","r","o","k","e","n">>, <<"m","i","n","t">>, <<"e","x","c","e","l","l","e","n","t">>,
  <<"g","o","o","d">>, <<"f","a","i","r">>, <<"p","o","o","r">>, <<"u","s">>, <<"e","u">>,
  <<"e","u","r">>, <<"s","t","r","l","s">>
>>

\* EXCLUDED_TAGS.includes(x) is x \in ExcludedTagSet
ExcludedTagSet == Range(EXCLUDED_TAGS)

str == <<"s", "t", "r">>

strl == <<"s", "t", "r", "l">>

\* /^(str|strl)\s+\d+/
ReStrSpaceNumber ==
  {Re(TRUE, Lit(p) \o <<Plus(WhiteSpace), Plus(Digits)>>, FALSE) : p \in {str, strl}}

\* /^(str|strl)\d+$/
ReStrNumber == {Re(TRUE, Lit(p) \o <<Plus(Digits)>>, TRUE) : p \in {str, strl}}

\* /^(str|strl)\s+\w+/
ReStrSpaceWord ==
  {Re(TRUE, Lit(p) \o <<Plus(WhiteSpace), Plus(WordChars)>>, FALSE) : p \in {str, strl}}

\* /^\d+\s+str$/
ReNumberSpaceStr == {Re(TRUE, <<Plus(Digits), Plus(WhiteSpace)>> \o Lit(str), TRUE)}

\* /^\d+str$/
ReNumberStr == {Re(TRUE, <<Plus(Digits)>> \o Lit(str), TRUE)}

\* /[()]/
ReParens == {Re(FALSE, <<One({"(", ")"})>>, FALSE)}

\* /^[a-z]+\s+str$/
ReLettersSpaceStr == {Re(TRUE, <<Plus(AZ), Plus(WhiteSpace)>> \o Lit(str), TRUE)}

\* /^us\d+$/, /^eu\d+$/, /^eur\d+$/
ReShoeSize ==
  {Re(TRUE, Lit(p) \o <<Plus(Digits)>>, TRUE) : p \in {<<"u", "s">>, <<"e", "u">>, <<"e", "u", "r">>}}

\* /^us\s+\d+$/, /^eu\s+\d+$/, /^eur\s+\d+$/
ReShoeSizeSpace ==
  {Re(TRUE, Lit(p) \o <<Plus(WhiteSpace), Plus(Digits)>>, TRUE) :
     p \in {<<"u", "s">>, <<"e", "u">>, <<"e", "u", "r">>}}

\* /str\s+\d+/
ReAnyStrSpaceNumber == {Re(FALSE, Lit(str) \o <<Plus(WhiteSpace), Plus(Digits)>>, FALSE)}

\* /str\d+/
ReAnyStrNumber == {Re(FALSE, Lit(str) \o <<Plus(Digits)>>, FALSE)}

ExclusionPatterns ==
  ReStrSpaceNumber \cup ReStrNumber \cup ReStrSpaceWord \cup ReNumberSpaceStr
    \cup ReNumberStr \cup ReParens \cup ReLettersSpaceStr \cup ReShoeSize
    \cup ReShoeSizeSpace \cup ReAnyStrSpaceNumber \cup ReAnyStrNumber

ExcludedSubstrings ==
  {<<"s", "t", "ø", "r", "r", "e", "l", "s", "e">>, <<"b", "i", "l", "l", "i", "g">>}

\* an exclusion test on the name as given
isTagExcluded_AsGiven(tagName) ==
  IF tagName = <<>>
  THEN FALSE
  ELSE LET lowerTag == tagName
       IN \/ arrayIncludes(EXCLUDED_TAGS, lowerTag)
          \/ \E re \in ExclusionPatterns : test(re, lowerTag)
          \/ \E sub \in ExcludedSubstrings : includes(lowerTag, sub)

isTagExcluded(tagName) ==
  IF tagName = <<>>
  THEN FALSE
  ELSE LET lowerTag == trim(toLowerCase(tagName))
       IN \/ arrayIncludes(EXCLUDED_TAGS, lowerTag)
          \/ \E re \in ExclusionPatterns : test(re, lowerTag)
          \/ \E sub \in ExcludedSubstrings : includes(lowerTag, sub)

(***************************************************************************)
(* Tags.  A Tag has name and state and may have listing_count,             *)
(* median_price, p25_price and p75_price; `tag.f || 0` reads a field.      *)
(***************************************************************************)
OrZero(tag, f) == IF f \in DOMAIN tag THEN tag[f] ELSE 0

(***************************************************************************)
(* Price impact scorer                                                     *)
(***************************************************************************)
\* ((tagMedianPrice - currentEstimate) / currentEstimate) * 100 >= t
percentageChangeGE(tagMedianPrice, currentEstimate, t) ==
  IF currentEstimate.num > 0
  THEN (tagMedianPrice * currentEstimate.den - currentEstimate.num) * 100
         >= t * currentEstimate.num
  ELSE (tagMedianPrice * currentEstimate.den - currentEstimate.num) * 100
         <= t * currentEstimate.num

\* the cascade with the -50 row taken at >= -40
scoreOfPercentageChange_Threshold(tagMedianPrice, currentEstimate) ==
  IF percentageChangeGE(tagMedianPrice, currentEstimate, 400) THEN 10
  ELSE IF percentageChangeGE(tagMedianPrice, currentEstimate, 200) THEN 8
  ELSE IF percentageChangeGE(tagMedianPrice, currentEstimate, 100) THEN 6
  ELSE IF percentageChangeGE(tagMedianPrice, currentEstimate, 50) THEN 4
  ELSE IF percentageChangeGE(tagMedianPrice, currentEstimate, 20) THEN 2
  ELSE IF percentageChangeGE(tagMedianPrice, currentEstimate, -20) THEN 0
  ELSE IF percentageChangeGE(tagMedianPrice, currentEstimate, -40) THEN -2
  ELSE IF percentageChangeGE(tagMedianPrice, currentEstimate, -60) THEN -4
  ELSE IF percentageChangeGE(tagMedianPrice, currentEstimate, -70) THEN -6
  ELSE IF percentageChangeGE(tagMedianPrice, currentEstimate, -80) THEN -8
  ELSE -10

\* the cascade with the results of the +200 and +100 rows exchanged
scoreOfPercentageChange_Swapped(tagMedianPrice, currentEstimate) ==
  IF percentageChangeGE(tagMedianPrice, currentEstimate, 400) THEN 10
  ELSE IF percentageChangeGE(tagMedianPrice, currentEstimate, 200) THEN 6
  ELSE IF percentageChangeGE(tagMedianPrice, currentEstimate, 100) THEN 8
  ELSE IF percentageChangeGE(tagMedianPrice, currentEstimate, 50) THEN 4
  ELSE IF percentageChangeGE(tagMedianPrice, currentEstimate, 20) THEN 2
  ELSE IF percentageChangeGE(tagMedianPrice, currentEstimate, -20) THEN 0
  ELSE IF percentageChangeGE(tagMedianPrice, currentEstimate, -50) THEN -2
  ELSE IF percentageChangeGE(tagMedianPrice, currentEstimate, -60) THEN -4
  ELSE IF percentageChangeGE(tagMedianPrice, currentEstimate, -70) THEN -6
  ELSE IF percentageChangeGE(tagMedianPrice, currentEstimate, -80) THEN -8
  ELSE -10

\* the threshold cascade over the percentage change
scoreOfPercentageChange(tagMedianPrice, currentEstimate) ==
  IF percentageChangeGE(tagMedianPrice, currentEstimate, 400) THEN 10
  ELSE IF percentageChangeGE(tagMedianPrice, currentEstimate, 200) THEN 8
  ELSE IF percentageChangeGE(tagMedianPrice, currentEstimate, 100) THEN 6
  ELSE IF percentageChangeGE(tagMedianPrice, currentEstimate, 50) THEN 4
  ELSE IF percentageChangeGE(tagMedianPrice, currentEstimate, 20) THEN 2
  ELSE IF percentageChangeGE(tagMedianPrice, currentEstimate, -20) THEN 0
  ELSE IF percentageChangeGE(tagMedianPrice, currentEstimate, -50) THEN -2
  ELSE IF percentageChangeGE(tagMedianPrice, currentEstimate, -60) THEN -4
  ELSE IF percentageChangeGE(tagMedianPrice, currentEstimate, -70) THEN -6
  ELSE IF percentageChangeGE(tagMedianPrice, currentEstimate, -80) THEN -8
  ELSE -10

\* without the guard the division by 0 gives Infinity, or NaN for 0 / 0
calculatePriceImpactScore_NoGuard(tagMedianPrice, currentEstimate) ==
  IF currentEstimate.num = 0
  THEN IF tagMedianPrice > 0 THEN 10 ELSE -10
  ELSE scoreOfPercentageChange(tagMedianPrice, currentEstimate)

calculatePriceImpactScore(tagMedianPrice, currentEstimate) ==
  IF currentEstimate.num = 0
  THEN 0
  ELSE scoreOfPercentageChange(tagMedianPrice, currentEstimate)

\* without the test for 0 the division gives Infinity or NaN, written 1 / 0
priceImpactPercentageOf_NoGuard(tagMedianPrice, currentEstimate) ==
  IF currentEstimate.num = 0
  THEN Rat(1, 0)
  ELSE Rat(Abs(tagMedianPrice * currentEstimate.den - currentEstimate.num) * 100,
           Abs(currentEstimate.num))

\* Math.abs(((tagMedianPrice - currentEstimate) / currentEstimate) * 100), 0 without estimate
priceImpactPercentageOf(tagMedianPrice, currentEstimate) ==
  IF currentEstimate.num = 0
  THEN Rat(0, 1)
  ELSE Rat(Abs(tagMedianPrice * currentEstimate.den - currentEstimate.num) * 100,
           Abs(currentEstimate.num))

(***************************************************************************)
(* Similarity scorer (similarity variant)                                  *)
(***************************************************************************)
\* one row of the matrix: row j from row j - 1, filled left to right
RECURSIVE levenshteinRow(_, _, _, _, _)
levenshteinRow(str1, c2, prevRow, j, row) ==
  LET i == Len(row)  \* row holds matrix[j][0 .. i - 1]
  IN IF i > Len(str1)
     THEN row
     ELSE LET indicator == IF str1[i] = c2 THEN 0 ELSE 1
              cell == Min(Min(row[i] + 1, prevRow[i + 1] + 1), prevRow[i] + indicator)
          IN levenshteinRow(str1, c2, prevRow, j, Append(row, cell))

RECURSIVE levenshteinRows(_, _, _, _)
levenshteinRows(str1, str2, j, prevRow) ==
  IF j > Len(str2)
  THEN prevRow
  ELSE levenshteinRows(str1, str2, j + 1, levenshteinRow(str1, str2[j], prevRow, j, <<j>>))

levenshteinDistance(str1, str2) ==
  levenshteinRows(str1, str2, 1, [i \in 1..(Len(str1) + 1) |-> i - 1])[Len(str1) + 1]

\* a scorer that gives two empty strings 0
calculateSimilarity_EmptyZero(str1, str2) ==
  LET distance == levenshteinDistance(toLowerCase(str1), toLowerCase(str2))
      maxLength == Max(Len(str1), Len(str2))
  IN IF maxLength = 0 THEN Rat(0, 1) ELSE Rat((maxLength - distance) * 100, maxLength)

\* a scorer that divides by the length of the first string
calculateSimilarity_FirstLength(str1, str2) ==
  LET distance == levenshteinDistance(toLowerCase(str1), toLowerCase(str2))
      maxLength == Len(str1)
  IN IF maxLength = 0 THEN Rat(100, 1) ELSE Rat((maxLength - distance) * 100, maxLength)

\* the similarity percentage as a fraction of 100: [num / den] * 100
calculateSimilarity(str1, str2) ==
  LET distance == levenshteinDistance(toLowerCase(str1), toLowerCase(str2))
      maxLength == Max(Len(str1), Len(str2))
  IN IF maxLength = 0 THEN Rat(100, 1) ELSE Rat((maxLength - distance) * 100, maxLength)

RatGE(r, t) == r.num >= t * r.den

RatMax(r, s) == IF r.num * s.den >= s.num * r.den THEN r ELSE s

RECURSIVE maxSimilarityOver(_, _, _)
maxSimilarityOver(tagName, selected, maxSimilarity) ==
  IF selected = <<>>
  THEN maxSimilarity
  ELSE maxSimilarityOver(tagName, Tail(selected),
                         RatMax(maxSimilarity, calculateSimilarity(tagName, Head(selected).name)))

\* a penalty taken against the last selected tag only
calculateSimilarityPenalty_LastOnly(tagName, selected) ==
  IF Len(selected) = 0
  THEN 0
  ELSE LET maxSimilarity == calculateSimilarity(tagName, selected[Len(selected)].name)
       IN IF RatGE(maxSimilarity, 85) THEN -6
          ELSE IF RatGE(maxSimilarity, 70) THEN -4
          ELSE IF RatGE(maxSimilarity, 55) THEN -2
          ELSE IF RatGE(maxSimilarity, 40) THEN -1
          ELSE 0

calculateSimilarityPenalty(tagName, selected) ==
  IF Len(selected) = 0
  THEN 0
  ELSE LET maxSimilarity == maxSimilarityOver(tagName, selected, Rat(0, 1))
       IN IF RatGE(maxSimilarity, 85) THEN -6
          ELSE IF RatGE(maxSimilarity, 70) THEN -4
          ELSE IF RatGE(maxSimilarity, 55) THEN -2
          ELSE IF RatGE(maxSimilarity, 40) THEN -1
          ELSE 0

(***************************************************************************)
(* Tag score                                                               *)
(***************************************************************************)
\* src/lib/tag-ranking.ts: pure price impact
calculateTagScore(tag, currentEstimate) ==
  LET tagMedianPrice == OrZero(tag, "median_price")
      priceImpactScore == calculatePriceImpactScore(tagMedianPrice, currentEstimate)
  IN [score |-> Max(-10, Min(10, priceImpactScore)),
      priceImpactPercentage |-> priceImpactPercentageOf(tagMedianPrice, currentEstimate)]

\* the total score returned as it is, not clamped
calculateTagScoreSim_NoClamp(tag, currentEstimate, selected) ==
  LET tagMedianPrice == OrZero(tag, "median_price")
      priceImpactScore == calculatePriceImpactScore(tagMedianPrice, currentEstimate)
      similarityPenalty == calculateSimilarityPenalty(tag.name, selected)
  IN [score |-> priceImpactScore + similarityPenalty,
      priceImpactPercentage |-> priceImpactPercentageOf(tagMedianPrice, currentEstimate)]

\* similarity variant: price impact plus similarity penalty
calculateTagScoreSim(tag, currentEstimate, selected) ==
  LET tagMedianPrice == OrZero(tag, "median_price")
      priceImpactScore == calculatePriceImpactScore(tagMedianPrice, currentEstimate)
      similarityPenalty == calculateSimilarityPenalty(tag.name, selected)
      totalScore == priceImpactScore + similarityPenalty
  IN [score |-> Max(-10, Min(10, totalScore)),
      priceImpactPercentage |-> priceImpactPercentageOf(tagMedianPrice, currentEstimate)]

\* a colouring without the light green class
getScoreColor_NoLightGreen(score) ==
  IF score >= 8 THEN "text-green-600 font-semibold"
  ELSE IF score >= 5 THEN "text-green-500 font-medium"
  ELSE IF score >= -1 THEN "text-gray-400"
  ELSE IF score >= -4 THEN "text-orange-400"
  ELSE IF score >= -7 THEN "text-orange-500 font-medium"
  ELSE "text-red-500 font-semibold"

getScoreColor(score) ==
  IF score >= 8 THEN "text-green-600 font-semibold"
  ELSE IF score >= 5 THEN "text-green-500 font-medium"
  ELSE IF score >= 2 THEN "text-green-400"
  ELSE IF score >= -1 THEN "text-gray-400"
  ELSE IF score >= -4 THEN "text-orange-400"
  ELSE IF score >= -7 THEN "text-orange-500 font-medium"
  ELSE "text-red-500 font-semibold"

(***************************************************************************)
(* Display string                                                          *)
(***************************************************************************)
\* Number.prototype.toString of a natural number
RECURSIVE natToString(_)
natToString(n) ==
  IF n < 10 THEN <<DigitChar(n)>> ELSE natToString(n \div 10) \o <<DigitChar(n % 10)>>

intToString(n) == IF n < 0 THEN <<"-">> \o natToString(-n) ELSE natToString(n)

\* (num / den).toFixed(1), the tenth nearest to the quotient (the larger of two)
toFixed1(num, den) ==
  LET tenths == (2 * 10 * Abs(num) + den) \div (2 * den)
  IN (IF num < 0 THEN <<"-">> ELSE <<>>)
       \o natToString(tenths \div 10) \o <<".">> \o <<DigitChar(tenths % 10)>>

formatListingCount(count) ==
  IF count >= 1000 THEN toFixed1(count, 1000) \o <<"k">> ELSE intToString(count)

RECURSIVE join(_, _)
join(parts, sep) ==
  IF parts = <<>> THEN <<>>
  ELSE IF Len(parts) = 1 THEN parts[1]
  ELSE parts[1] \o sep \o join(Tail(parts), sep)

Separator == <<" ", "|", " ">>

Listings == <<" ", "l", "i", "s", "t", "i", "n", "g", "s">>

scoreTextOf(score) == IF score >= 0 THEN <<"+">> \o toFixed1(score, 1) ELSE toFixed1(score, 1)

\* src/lib/tag-ranking.ts: the price range only when a percentile price is known
formatTagDisplay(tag, score) ==
  LET p25Price == OrZero(tag, "p25_price")
      p75Price == OrZero(tag, "p75_price")
      listingCount == OrZero(tag, "listing_count")
      range == intToString(p25Price) \o <<"-">> \o intToString(p75Price) \o <<"k", "r">>
  IN join(<<scoreTextOf(score)>>
            \o (IF p25Price > 0 \/ p75Price > 0 THEN <<range>> ELSE <<>>)
            \o <<formatListingCount(listingCount) \o Listings>>,
          Separator)

\* similarity variant: the price range always
formatTagDisplaySim(tag, score) ==
  LET p25Price == OrZero(tag, "p25_price")
      p75Price == OrZero(tag, "p75_price")
      listingCount == OrZero(tag, "listing_count")
      range == intToString(p25Price) \o <<"-">> \o intToString(p75Price) \o <<"k", "r">>
  IN join(<<scoreTextOf(score), range, formatListingCount(listingCount) \o Listings>>,
          Separator)

(***************************************************************************)
(* Verbosity test                                                          *)
(***************************************************************************)
\* /[\s\-_]+/
WordSeparators == WhiteSpace \cup {"-", "_"}

\* String.prototype.split on a run of separators: acc the words so far, cur the
\* word being read, inSep whether the last character was a separator
RECURSIVE splitWords(_, _, _, _)
splitWords(s, acc, cur, inSep) ==
  IF s = <<>>
  THEN Append(acc, cur)
  ELSE IF Head(s) \in WordSeparators
       THEN IF inSep
            THEN splitWords(Tail(s), acc, cur, TRUE)
            ELSE splitWords(Tail(s), Append(acc, cur), <<>>, TRUE)
       ELSE splitWords(Tail(s), acc, Append(cur, Head(s)), FALSE)

isPureNumber(word) == word # <<>> /\ \A i \in DOMAIN word : word[i] \in Digits

extractCoreTerms(tagName) ==
  LET name == trim(toLowerCase(tagName))
  IN SelectSeq(splitWords(name, <<>>, <<>>, FALSE),
               LAMBDA word : Len(word) > 2 /\ ~isPureNumber(word))

sharesCoreProduct(tag1, tag2) ==
  LET terms1 == extractCoreTerms(tag1.name)
      terms2 == extractCoreTerms(tag2.name)
      sharedTerms == SelectSeq(terms1, LAMBDA term : arrayIncludes(terms2, term))
      price1 == OrZero(tag1, "median_price")
      price2 == OrZero(tag2, "median_price")
  IN IF Len(terms1) = 0 \/ Len(terms2) = 0 THEN FALSE
     ELSE IF Len(sharedTerms) > 0
          THEN IF price1 > 0 /\ price2 > 0
               THEN \* Math.abs(price1 - price2) / Math.max(price1, price2) < 0.1
                    Abs(price1 - price2) * 10 < Max(price1, price2)
               ELSE TRUE
          ELSE FALSE

\* the test without the skip of very short tags
isVerboseTag_NoLengthCheck(tag, allTags) ==
  \E i \in DOMAIN allTags :
    /\ allTags[i].name # tag.name
    /\ sharesCoreProduct(tag, allTags[i])
    /\ Len(allTags[i].name) < Len(tag.name)

isVerboseTag(tag, allTags) ==
  LET tagName == trim(toLowerCase(tag.name))
      similarTags == SelectSeq(allTags, LAMBDA otherTag :
                         otherTag.name # tag.name /\ sharesCoreProduct(tag, otherTag))
      shorterSimilarTags == SelectSeq(similarTags, LAMBDA otherTag :
                                Len(otherTag.name) < Len(tag.name))
  IN IF Len(tagName) <= 4 THEN FALSE
     ELSE IF Len(similarTags) = 0 THEN FALSE
     ELSE Len(shorterSimilarTags) > 0

(***************************************************************************)
(* Comparators.  Each gives the sign of the number the callback returns.   *)
(***************************************************************************)
\* b - a of two fractions: its sign, and whether |b - a| > t
RatDiffSign(a, b) == Sign(b.num * a.den - a.num * b.den)

RatDiffExceeds(a, b, t) == Abs(b.num * a.den - a.num * b.den) > t * a.den * b.den

\* String.prototype.localeCompare: white space, punctuation, digits, then letters;
\* letter case decides only between names that are otherwise equal
CollationOrder ==
  <<" ", "\t", "_", "-", "(", ")", ".">>
    \o <<"0", "1", "2", "3", "4", "5", "6", "7", "8", "9">> \o LowerLetters \o <<"å", "ø">>

CollationRankOf ==
  [c \in Range(CollationOrder) |-> CHOOSE i \in DOMAIN CollationOrder : CollationOrder[i] = c]

CollationRank(c) == CollationRankOf[toLowerCaseChar(c)]

RECURSIVE comparePrimary(_, _)
comparePrimary(a, b) ==
  IF a = <<>> \/ b = <<>>
  THEN Sign(Len(a) - Len(b))
  ELSE IF CollationRank(Head(a)) # CollationRank(Head(b))
       THEN Sign(CollationRank(Head(a)) - CollationRank(Head(b)))
       ELSE comparePrimary(Tail(a), Tail(b))

RECURSIVE compareCase(_, _)
compareCase(a, b) ==
  IF a = <<>> \/ b = <<>> THEN 0
  ELSE IF Head(a) = Head(b) THEN compareCase(Tail(a), Tail(b))
  ELSE IF Head(a) = toLowerCaseChar(Head(a)) THEN -1 ELSE 1

localeCompare(a, b) ==
  LET primary == comparePrimary(a, b)
  IN IF primary # 0 THEN primary ELSE compareCase(a, b)

\* listing count high to low, equal counts left as they come
compareListingCount_NoTieBreak(a, b) ==
  Sign(OrZero(b, "listing_count") - OrZero(a, "listing_count"))

\* listing_count mode: listing count high to low, then name
compareListingCount(a, b) ==
  LET listingCountA == OrZero(a, "listing_count")
      listingCountB == OrZero(b, "listing_count")
  IN IF listingCountB # listingCountA
     THEN Sign(listingCountB - listingCountA)
     ELSE localeCompare(a.name, b.name)

\* sortByRankScoreThenListingCount of src/lib/tag-ranking.ts: 0.1, 1, 50
compareRankScore(a, b) ==
  LET rankScoreDiff == b.rankScore - a.rankScore
      listingCountDiff == OrZero(b, "listing_count") - OrZero(a, "listing_count")
  IN IF 10 * Abs(rankScoreDiff) > 1 THEN Sign(rankScoreDiff)
     ELSE IF RatDiffExceeds(a.priceImpactPercentage, b.priceImpactPercentage, 1)
          THEN RatDiffSign(a.priceImpactPercentage, b.priceImpactPercentage)
     ELSE IF Abs(listingCountDiff) > 50 THEN Sign(listingCountDiff)
     ELSE Sign(Len(a.name) - Len(b.name))

\* sortByRankScoreThenListingCount of the similarity variant: 0.5, 5, 100
compareRankScoreSim(a, b) ==
  LET rankScoreDiff == b.rankScore - a.rankScore
      listingCountDiff == OrZero(b, "listing_count") - OrZero(a, "listing_count")
  IN IF 10 * Abs(rankScoreDiff) > 5 THEN Sign(rankScoreDiff)
     ELSE IF RatDiffExceeds(a.priceImpactPercentage, b.priceImpactPercentage, 5)
          THEN RatDiffSign(a.priceImpactPercentage, b.priceImpactPercentage)
     ELSE IF Abs(listingCountDiff) > 100 THEN Sign(listingCountDiff)
     ELSE Sign(Len(a.name) - Len(b.name))

\* filterTagsByPolarity: non-negative tags, score high to low, then listing count
comparePositive(a, b) ==
  LET scoreDiff == b.rankScore - a.rankScore
  IN IF Abs(scoreDiff) > 1 THEN Sign(scoreDiff)
     ELSE Sign(OrZero(b, "listing_count") - OrZero(a, "listing_count"))

\* filterTagsByPolarity: negative tags, most negative first, then listing count
compareNegative(a, b) ==
  LET scoreDiff == a.rankScore - b.rankScore
  IN IF Abs(scoreDiff) > 1 THEN Sign(scoreDiff)
     ELSE Sign(OrZero(b, "listing_count") - OrZero(a, "listing_count"))

compare(by, a, b) ==
  CASE by = "listing_count" -> compareListingCount(a, b)
    [] by = "rankScore" -> compareRankScore(a, b)
    [] by = "rankScoreSim" -> compareRankScoreSim(a, b)
    [] by = "positive" -> comparePositive(a, b)
    [] by = "negative" -> compareNegative(a, b)

\* Array.prototype.sort: a stable insertion of each element, left to right,
\* behind the last element that does not compare greater.
\* The last index of lo..hi whose element does not compare greater than x, or 0
RECURSIVE lastNotGreater(_, _, _, _, _)
lastNotGreater(by, sorted, x, lo, hi) ==
  IF lo > hi THEN 0
  ELSE IF lo = hi THEN (IF compare(by, sorted[lo], x) > 0 THEN 0 ELSE lo)
  ELSE LET mid == (lo + hi) \div 2
           upper == lastNotGreater(by, sorted, x, mid + 1, hi)
       IN IF upper # 0 THEN upper ELSE lastNotGreater(by, sorted, x, lo, mid)

insertAt(sorted, x, at) ==
  SubSeq(sorted, 1, at) \o <<x>> \o SubSeq(sorted, at + 1, Len(sorted))

insertSorted(by, sorted, x) == insertAt(sorted, x, lastNotGreater(by, sorted, x, 1, Len(sorted)))

\* the elements lo..hi of arr inserted, in this order, into sorted
RECURSIVE sortRange(_, _, _, _, _)
sortRange(by, sorted, arr, lo, hi) ==
  IF lo > hi THEN sorted
  ELSE IF lo = hi THEN insertSorted(by, sorted, arr[lo])
  ELSE LET mid == (lo + hi) \div 2
           lower == sortRange(by, sorted, arr, lo, mid)
       IN \* lower holds an element; the test has it worked out before it is passed on
          IF Len(lower) = 0 THEN lower ELSE sortRange(by, lower, arr, mid + 1, hi)

sort(by, arr) == sortRange(by, <<>>, arr, 1, Len(arr))

\* Array.prototype.slice(0, n)
slice0(arr, n) == SubSeq(arr, 1, Min(n, Len(arr)))

map(arr, f(_)) == AsSeq([i \in DOMAIN arr |-> f(arr[i])])

(***************************************************************************)
(* Rank aggregator                                                         *)
(***************************************************************************)
\* parseFloat of a string of digits and dots: the digits before the first dot and
\* the digits between it and the next one; NaN (here: FALSE) when there is no digit
RECURSIVE leadingDigits(_)
leadingDigits(s) ==
  IF s # <<>> /\ Head(s) \in Digits THEN <<Head(s)>> \o leadingDigits(Tail(s)) ELSE <<>>

RECURSIVE digitsValue(_)
digitsValue(ds) ==
  IF ds = <<>> THEN 0
  ELSE 10 * digitsValue(SubSeq(ds, 1, Len(ds) - 1)) + DigitValue(ds[Len(ds)])

parseFloat(s) ==
  LET intPart == leadingDigits(s)
      rest == SubSeq(s, Len(intPart) + 1, Len(s))
      fracPart == IF rest # <<>> /\ Head(rest) = "." THEN leadingDigits(Tail(rest)) ELSE <<>>
  IN IF intPart = <<>> /\ fracPart = <<>>
     THEN [nan |-> TRUE, value |-> Rat(0, 1)]
     ELSE [nan |-> FALSE,
           value |-> Rat(digitsValue(intPart) * Pow10(Len(fracPart)) + digitsValue(fracPart),
                         Pow10(Len(fracPart)))]

\* the label parsed as it is, nothing stripped
parseEstimate_NoStrip(currentEstimateString) ==
  LET parsed == parseFloat(currentEstimateString)
  IN IF parsed.nan \/ parsed.value.num = 0 THEN Rat(0, 1) ELSE parsed.value

\* parseFloat(currentEstimateString.replace(/[^\d.]/g, '')) || 0
parseEstimate(currentEstimateString) ==
  LET parsed == parseFloat(SelectSeq(currentEstimateString, LAMBDA c : c \in Digits \cup {"."}))
  IN IF parsed.nan \/ parsed.value.num = 0 THEN Rat(0, 1) ELSE parsed.value

\* { ...tag, rankScore, priceImpactPercentage }
withScore(tag, scored) ==
  [rankScore |-> scored.score, priceImpactPercentage |-> scored.priceImpactPercentage] @@ tag

\* { ...tag, price_range, color } of src/lib/tag-ranking.ts
annotate(tag) ==
  [price_range |-> formatTagDisplay(tag, tag.rankScore), color |-> getScoreColor(tag.rankScore)]
    @@ tag

\* { ...tag, price_range, color } of the similarity variant
annotateSim(tag) ==
  [price_range |-> formatTagDisplaySim(tag, tag.rankScore),
   color |-> getScoreColor(tag.rankScore)] @@ tag

\* the bucket of a score taken with its sign
bucketOf_Signed(rankScore) ==
  IF rankScore >= 10 THEN "S"
  ELSE IF rankScore >= 8 THEN "A"
  ELSE IF rankScore >= 5 THEN "B"
  ELSE IF rankScore >= 2 THEN "C"
  ELSE "D"

\* the bucket of a score taken by its absolute value
bucketOf(rankScore) ==
  LET absScore == Abs(rankScore)
  IN IF absScore >= 10 THEN "S"
     ELSE IF absScore >= 8 THEN "A"
     ELSE IF absScore >= 5 THEN "B"
     ELSE IF absScore >= 2 THEN "C"
     ELSE "D"

BucketNames == <<"S", "A", "B", "C", "D">>

\* a bucket D that takes every tag
inBucket_AllInD(tags, b) == SelectSeq(tags, LAMBDA tag : bucketOf(tag.rankScore) = b \/ b = "D")

inBucket(tags, b) == SelectSeq(tags, LAMBDA tag : bucketOf(tag.rankScore) = b)

EmptyParts == [exclusions |-> <<>>, verboseTags |-> <<>>, normalTags |-> <<>>]

\* filteredTags.forEach of src/lib/tag-ranking.ts: verbose or normal
RECURSIVE classify(_, _, _)
classify(parts, tags, filteredTags) ==
  IF tags = <<>>
  THEN parts
  ELSE LET tag == Head(tags)
       IN classify(IF isVerboseTag(tag, filteredTags)
                   THEN [parts EXCEPT !.verboseTags = Append(@, tag)]
                   ELSE [parts EXCEPT !.normalTags = Append(@, tag)],
                   Tail(tags), filteredTags)

\* the listing_count mode with the excluded tags left in
rankByListingCount_NoFilter(tagsWithScores) ==
  map(sort("listing_count", tagsWithScores), annotate)

\* the listing_count mode of src/lib/tag-ranking.ts
rankByListingCount(tagsWithScores) ==
  LET filteredTags == SelectSeq(tagsWithScores, LAMBDA tag : ~isTagExcluded(tag.name))
      rankedTags == sort("listing_count", filteredTags)
  IN map(rankedTags, annotate)

\* the smart mode with the verbose tags not appended to the buckets
rankSmart_DropVerbose(tagsWithScores) ==
  LET filteredTags == SelectSeq(tagsWithScores, LAMBDA tag : ~isTagExcluded(tag.name))
      normalTags == classify(EmptyParts, filteredTags, filteredTags).normalTags
      rankedTags ==
        sort("rankScore", inBucket(normalTags, "S"))
          \o sort("rankScore", inBucket(normalTags, "A"))
          \o sort("rankScore", inBucket(normalTags, "B"))
          \o sort("rankScore", inBucket(normalTags, "C"))
          \o sort("rankScore", inBucket(normalTags, "D"))
  IN map(rankedTags, annotate)

\* the smart mode of src/lib/tag-ranking.ts
rankSmart(tagsWithScores) ==
  LET filteredTags == SelectSeq(tagsWithScores, LAMBDA tag : ~isTagExcluded(tag.name))
      parts == classify(EmptyParts, filteredTags, filteredTags)
      verboseTags == parts.verboseTags
      normalTags == parts.normalTags
      rankedTags ==
        sort("rankScore", inBucket(normalTags, "S"))
          \o sort("rankScore", inBucket(normalTags, "A"))
          \o sort("rankScore", inBucket(normalTags, "B"))
          \o sort("rankScore", inBucket(normalTags, "C"))
          \o sort("rankScore", inBucket(normalTags, "D"))
          \o sort("rankScore", verboseTags)
  IN map(rankedTags, annotate)

\* a rankTags that scores against originalBrandEstimate when it is given one
rankTags_UsesOriginal(unselectedTags, selected, currentEstimateString, originalBrandEstimate, sortMode) ==
  LET currentEstimate ==
        IF originalBrandEstimate # 0 THEN Rat(originalBrandEstimate, 1)
        ELSE parseEstimate(currentEstimateString)
      tagsWithScores ==
        map(unselectedTags, LAMBDA tag : withScore(tag, calculateTagScore(tag, currentEstimate)))
  IN IF sortMode = "listing_count"
     THEN rankByListingCount(tagsWithScores)
     ELSE rankSmart(tagsWithScores)

rankTags(unselectedTags, selected, currentEstimateString, originalBrandEstimate, sortMode) ==
  LET currentEstimate == parseEstimate(currentEstimateString)
      tagsWithScores ==
        map(unselectedTags, LAMBDA tag : withScore(tag, calculateTagScore(tag, currentEstimate)))
  IN IF sortMode = "listing_count"
     THEN rankByListingCount(tagsWithScores)
     ELSE rankSmart(tagsWithScores)

(***************************************************************************)
(* Rank aggregator, similarity variant                                     *)
(***************************************************************************)
MaxTotalToShow == 150

MaxNegativeToShow == 10

\* the last lines of filterTagsByPolarity: the caps and the two slices; total is
\* tagsWithScores.length
takeWithinCaps(sortedPositive, sortedNegative, total) ==
  LET totalToShow == Min(MaxTotalToShow, total)
      maxNegativeToShow == Min(MaxNegativeToShow, Len(sortedNegative))
      positiveToShow == totalToShow - maxNegativeToShow
  IN slice0(sortedPositive, positiveToShow) \o slice0(sortedNegative, maxNegativeToShow)

filterTagsByPolarity(tagsWithScores) ==
  LET positiveTags == SelectSeq(tagsWithScores, LAMBDA tag : tag.rankScore >= 0)
      negativeTags == SelectSeq(tagsWithScores, LAMBDA tag : tag.rankScore < 0)
      qualityNegativeTags ==
        SelectSeq(negativeTags, LAMBDA tag :
          \/ OrZero(tag, "listing_count") >= 200
          \/ tag.rankScore <= -8 /\ OrZero(tag, "listing_count") >= 50)
  IN takeWithinCaps(sort("positive", positiveTags), sort("negative", qualityNegativeTags),
                    Len(tagsWithScores))

maxNegativePerBucket == 2

\* one step of normalTags.forEach with the negative tags bucketed as the others are
placeInBucket_NoSpread(st, tag) ==
  [st EXCEPT !.buckets[bucketOf(tag.rankScore)] = Append(@, tag)]

\* one step of normalTags.forEach: st holds the buckets and negativeCounts
placeInBucket(st, tag) ==
  LET score == tag.rankScore
      absScore == Abs(score)
      push(b) == [st EXCEPT !.buckets[b] = Append(@, tag)]
      pushNegative(b) == [st EXCEPT !.buckets[b] = Append(@, tag), !.negativeCounts[b] = @ + 1]
  IN IF score < 0
     THEN IF absScore >= 10 /\ st.negativeCounts["S"] < maxNegativePerBucket
            THEN pushNegative("S")
          ELSE IF absScore >= 8 /\ st.negativeCounts["A"] < maxNegativePerBucket
            THEN pushNegative("A")
          ELSE IF absScore >= 5 /\ st.negativeCounts["B"] < maxNegativePerBucket
            THEN pushNegative("B")
          ELSE IF absScore >= 2 /\ st.negativeCounts["C"] < maxNegativePerBucket
            THEN pushNegative("C")
          ELSE IF st.negativeCounts["D"] < maxNegativePerBucket
            THEN pushNegative("D")
          ELSE st
     ELSE push(bucketOf(score))

RECURSIVE distribute(_, _)
distribute(st, normalTags) ==
  IF normalTags = <<>> THEN st
  ELSE distribute(placeInBucket(st, Head(normalTags)), Tail(normalTags))

EmptyBuckets ==
  [buckets |-> [b \in Range(BucketNames) |-> <<>>],
   negativeCounts |-> [b \in Range(BucketNames) |-> 0]]

\* filteredTags.forEach of the similarity variant: excluded, verbose or normal
RECURSIVE classifySim(_, _, _)
classifySim(parts, tags, filteredTags) ==
  IF tags = <<>>
  THEN parts
  ELSE LET tag == Head(tags)
       IN classifySim(IF isTagExcluded(tag.name)
                      THEN [parts EXCEPT !.exclusions = Append(@, tag)]
                      ELSE IF isVerboseTag(tag, filteredTags)
                           THEN [parts EXCEPT !.verboseTags = Append(@, tag)]
                           ELSE [parts EXCEPT !.normalTags = Append(@, tag)],
                      Tail(tags), filteredTags)

\* the listing_count mode of the similarity variant
rankByListingCountSim(tagsWithScores) ==
  LET filteredTags == SelectSeq(tagsWithScores, LAMBDA tag : ~isTagExcluded(tag.name))
      rankedTags == sort("listing_count", filteredTags)
  IN map(rankedTags, annotateSim)

\* [...sortBy(buckets.S), ..., ...sortBy(buckets.D), ...sortBy(verboseTags)]
concatSorted(by, buckets, verboseTags) ==
  sort(by, buckets["S"])
    \o sort(by, buckets["A"])
    \o sort(by, buckets["B"])
    \o sort(by, buckets["C"])
    \o sort(by, buckets["D"])
    \o sort(by, verboseTags)

\* the smart mode of the similarity variant from the classified tags on
rankPartsSim(parts) ==
  map(concatSorted("rankScoreSim", distribute(EmptyBuckets, parts.normalTags).buckets,
                   parts.verboseTags),
      annotateSim)

\* the smart mode of the similarity variant from filteredTags on
rankFilteredSim(filteredTags) == rankPartsSim(classifySim(EmptyParts, filteredTags, filteredTags))

\* the smart mode of the similarity variant
rankSmartSim(tagsWithScores) == rankFilteredSim(filterTagsByPolarity(tagsWithScores))

\* a rankTags that keeps its result array between calls and adds to it
rankTagsSim_KeepsResult(unselectedTags, selected, currentEstimateString, originalBrandEstimate, sortMode) ==
  LET currentEstimate == parseEstimate(currentEstimateString)
      baselineForScoring ==
        IF originalBrandEstimate # 0 THEN Rat(originalBrandEstimate, 1) ELSE currentEstimate
      tagsWithScores ==
        map(unselectedTags, LAMBDA tag :
          withScore(tag, calculateTagScoreSim(tag, baselineForScoring, selected)))
  IN out \o (IF sortMode = "listing_count"
             THEN rankByListingCountSim(tagsWithScores)
             ELSE rankSmartSim(tagsWithScores))

rankTagsSim(unselectedTags, selected, currentEstimateString, originalBrandEstimate, sortMode) ==
  LET currentEstimate == parseEstimate(currentEstimateString)
      baselineForScoring ==
        IF originalBrandEstimate # 0 THEN Rat(originalBrandEstimate, 1) ELSE currentEstimate
      tagsWithScores ==
        map(unselectedTags, LAMBDA tag :
          withScore(tag, calculateTagScoreSim(tag, baselineForScoring, selected)))
  IN IF sortMode = "listing_count"
     THEN rankByListingCountSim(tagsWithScores)
     ELSE rankSmartSim(tagsWithScores)

(***************************************************************************)
(* rankTags on the heap.  An array is a sequence of object indices, an      *)
(* object a record of fields; h.ret is the array the last step produced.    *)
(* map, filter, slice, [...a] and literals make an array; sort and push      *)
(* write the array they are called on; { ...tag } makes an object.          *)
(***************************************************************************)
EmptyHeap == [arrays |-> <<>>, objects |-> <<>>, ret |-> 0]

\* the array ref as the one the next step works on
at(h, ref) == [h EXCEPT !.ret = ref]

\* an array literal (and the pushes that fill it)
newArray(h, ids) == [h EXCEPT !.arrays = Append(@, ids), !.ret = Len(h.arrays) + 1]

RECURSIVE newArrays(_, _)
newArrays(h, idLists) ==
  IF idLists = <<>> THEN h ELSE newArrays(newArray(h, Head(idLists)), Tail(idLists))

\* the objects of an array, each with the index it has on the heap
tagged(h, ref) ==
  AsSeq([i \in 1..Len(h.arrays[ref]) |-> [ref |-> h.arrays[ref][i]] @@ h.objects[h.arrays[ref][i]]])

refsOf(tags) == AsSeq([i \in 1..Len(tags) |-> tags[i].ref])

\* the values of an array
elements(h, ref) == AsSeq([i \in 1..Len(h.arrays[ref]) |-> h.objects[h.arrays[ref][i]]])

\* Array.prototype.map with a callback that returns { ...tag, ... }
arrayMap(h, f(_)) ==
  newArray([h EXCEPT !.objects = @ \o map(elements(h, h.ret), f)],
           AsSeq([i \in 1..Len(h.arrays[h.ret]) |-> Len(h.objects) + i]))

\* Array.prototype.filter
arrayFilter(h, p(_)) == newArray(h, SelectSeq(h.arrays[h.ret], LAMBDA id : p(h.objects[id])))

\* [...array]
arrayCopy(h) == newArray(h, h.arrays[h.ret])

\* Array.prototype.slice(0, n)
arraySlice(h, n) == newArray(h, slice0(h.arrays[h.ret], n))

\* Array.prototype.sort: the array is sorted in place and returned
arraySort(h, by) == [h EXCEPT !.arrays[h.ret] = refsOf(sort(by, tagged(h, h.ret)))]

\* [...sortBy(a1), ..., ...sortBy(an)], sortBy being [...tags].sort(...); ids are the
\* elements spread so far
RECURSIVE concatSortedOnHeap(_, _, _, _)
RECURSIVE spreadSorted(_, _, _, _)
concatSortedOnHeap(h, by, refs, ids) ==
  IF refs = <<>>
  THEN newArray(h, ids)
  ELSE spreadSorted(arraySort(arrayCopy(at(h, Head(refs))), by), by, Tail(refs), ids)

spreadSorted(h, by, refs, ids) == concatSortedOnHeap(h, by, refs, ids \o h.arrays[h.ret])

\* the arrays the smart mode fills, made after the n arrays there are:
\* exclusions, verboseTags, normalTags and the buckets S, A, B, C, D
smartArrays(h, parts, buckets) ==
  newArrays(h, <<refsOf(parts.exclusions), refsOf(parts.verboseTags), refsOf(parts.normalTags),
                 refsOf(buckets["S"]), refsOf(buckets["A"]), refsOf(buckets["B"]),
                 refsOf(buckets["C"]), refsOf(buckets["D"])>>)

\* the sorted buckets and the verbose tags in one array; n arrays were there before
\* smartArrays made its eight
rankedOnHeap(h, by, n) ==
  concatSortedOnHeap(h, by, <<n + 4, n + 5, n + 6, n + 7, n + 8, n + 2>>, <<>>)

bucketsOf(normalTags) == [b \in Range(BucketNames) |-> inBucket(normalTags, b)]

\* the smart mode of src/lib/tag-ranking.ts from filteredTags (h.ret) on
smartPartsOnHeap(h, parts) ==
  arrayMap(rankedOnHeap(smartArrays(h, parts, bucketsOf(parts.normalTags)), "rankScore",
                        Len(h.arrays)),
           annotate)

smartOnHeap(h, filteredTags) == smartPartsOnHeap(h, classify(EmptyParts, filteredTags, filteredTags))

\* rankTags of src/lib/tag-ranking.ts from tagsWithScores (h.ret) on
rankScoredOnHeap(h, sortMode) ==
  IF sortMode = "listing_count"
  THEN arrayMap(arraySort(arrayCopy(h), "listing_count"), annotate)
  ELSE smartOnHeap(h, tagged(h, h.ret))

\* a rankTags that sorts the array it is given before it scores the tags
rankTagsOnHeap_SortsArgument(h, unselectedTags, selected, currentEstimateString, originalBrandEstimate, sortMode) ==
  rankScoredOnHeap(
    arrayFilter(
      arrayMap(arraySort(at(h, unselectedTags), "listing_count"),
               LAMBDA tag : withScore(tag, calculateTagScore(tag, parseEstimate(currentEstimateString)))),
      LAMBDA tag : ~isTagExcluded(tag.name)),
    sortMode)

\* rankTags of src/lib/tag-ranking.ts; unselectedTags and selected are arrays of the heap
rankTagsOnHeap(h, unselectedTags, selected, currentEstimateString, originalBrandEstimate, sortMode) ==
  rankScoredOnHeap(
    arrayFilter(
      arrayMap(at(h, unselectedTags),
               LAMBDA tag : withScore(tag, calculateTagScore(tag, parseEstimate(currentEstimateString)))),
      LAMBDA tag : ~isTagExcluded(tag.name)),
    sortMode)

\* filterTagsByPolarity from tagsWithScores (h.ret) on; it makes the arrays n + 1 ..
\* n + 6: positiveTags, negativeTags, qualityNegativeTags, selectedNegative,
\* selectedPositive and the array returned
polarityFiltersOnHeap(h, tagsWithScores) ==
  arrayFilter(
    arrayFilter(
      at(arrayFilter(h, LAMBDA tag : tag.rankScore >= 0), tagsWithScores),
      LAMBDA tag : tag.rankScore < 0),
    LAMBDA tag : \/ OrZero(tag, "listing_count") >= 200
                 \/ tag.rankScore <= -8 /\ OrZero(tag, "listing_count") >= 50)

polaritySortsOnHeap(h, n) == arraySort(at(arraySort(at(h, n + 1), "positive"), n + 3), "negative")

polaritySlicesOnHeap(h, n, total) ==
  arraySlice(
    at(arraySlice(h, Min(MaxNegativeToShow, Len(h.arrays[n + 3]))), n + 1),
    Min(MaxTotalToShow, total) - Min(MaxNegativeToShow, Len(h.arrays[n + 3])))

polarityResultOnHeap(h, n) == newArray(h, h.arrays[n + 5] \o h.arrays[n + 4])

filterTagsByPolarityOnHeap(h) ==
  polarityResultOnHeap(
    polaritySlicesOnHeap(
      polaritySortsOnHeap(polarityFiltersOnHeap(h, h.ret), Len(h.arrays)),
      Len(h.arrays), Len(h.arrays[h.ret])),
    Len(h.arrays))

\* the smart mode of the similarity variant from filteredTags (h.ret) on
smartPartsSimOnHeap(h, parts) ==
  arrayMap(rankedOnHeap(smartArrays(h, parts, distribute(EmptyBuckets, parts.normalTags).buckets),
                        "rankScoreSim", Len(h.arrays)),
           annotateSim)

smartSimOnHeap(h, filteredTags) ==
  smartPartsSimOnHeap(h, classifySim(EmptyParts, filteredTags, filteredTags))

smartFilteredSimOnHeap(h) == smartSimOnHeap(h, tagged(h, h.ret))

rankScoredSimOnHeap(h, sortMode) ==
  IF sortMode = "listing_count"
  THEN arrayMap(arraySort(arrayCopy(arrayFilter(h, LAMBDA tag : ~isTagExcluded(tag.name))),
                          "listing_count"),
                annotateSim)
  ELSE smartFilteredSimOnHeap(filterTagsByPolarityOnHeap(h))

baselineOf(currentEstimateString, originalBrandEstimate) ==
  IF originalBrandEstimate # 0
  THEN Rat(originalBrandEstimate, 1)
  ELSE parseEstimate(currentEstimateString)

\* rankTags of the similarity variant; unselectedTags and selected are arrays of the heap
rankTagsSimOnHeap(h, unselectedTags, selected, currentEstimateString, originalBrandEstimate, sortMode) ==
  rankScoredSimOnHeap(
    arrayMap(at(h, unselectedTags),
             LAMBDA tag :
               withScore(tag, calculateTagScoreSim(
                                tag, baselineOf(currentEstimateString, originalBrandEstimate),
                                elements(h, selected)))),
    sortMode)

(***************************************************************************)
(* Selection state: useQueryState and useTagSelection                      *)
(***************************************************************************)
\* null where a string may stand (query.brand, results.error)
null == <<"null">>

\* null where an object may stand (results.data)
nullData == [null |-> TRUE]

initialQuery == [brand |-> null, includedTags |-> <<>>, excludedTags |-> <<>>]

initialResults == [data |-> nullData, loading |-> FALSE, error |-> null]

\* { ...tag, state }
withState(tag, state) == [state |-> state] @@ tag

\* prev.filter(t => t.name !== tag.name)
withoutName(tags, name) == SelectSeq(tags, LAMBDA t : t.name # name)

\* includeTag that leaves the excluded list as it is
includeTag_KeepExcluded(q, tag) ==
  [q EXCEPT !.includedTags = Append(withoutName(@, tag.name), withState(tag, "included"))]

\* includeTag of both hooks
includeTag(q, tag) ==
  [q EXCEPT !.includedTags = Append(withoutName(@, tag.name), withState(tag, "included")),
            !.excludedTags = withoutName(@, tag.name)]

\* excludeTag of both hooks
excludeTag(q, tag) ==
  [q EXCEPT !.excludedTags = Append(withoutName(@, tag.name), withState(tag, "excluded")),
            !.includedTags = withoutName(@, tag.name)]

\* unselectTag that empties the included list
unselectTag_DropsIncluded(q, tag) ==
  [q EXCEPT !.includedTags = <<>>, !.excludedTags = withoutName(@, tag.name)]

\* unselectTag of both hooks
unselectTag(q, tag) ==
  [q EXCEPT !.includedTags = withoutName(@, tag.name),
            !.excludedTags = withoutName(@, tag.name)]

\* setBrand of useQueryState
setBrand(newBrand) ==
  [brand |-> trim(toLowerCase(newBrand)), includedTags |-> <<>>, excludedTags |-> <<>>]

\* setBrand of useTagSelection: the tags are kept unless another brand follows a brand
setBrandOfSelection(q, newBrand) ==
  LET normalizedNewBrand == trim(toLowerCase(newBrand))
      normalizedCurrentBrand == trim(toLowerCase(q.brand))
  IN IF normalizedNewBrand # normalizedCurrentBrand /\ normalizedCurrentBrand # <<>>
     THEN [brand |-> normalizedNewBrand, includedTags |-> <<>>, excludedTags |-> <<>>]
     ELSE [q EXCEPT !.brand = normalizedNewBrand]

\* the tags the API lists for every brand
ResponseTags ==
  <<[name |-> <<"A","i","r">>, listing_count |-> 10],
    [name |-> <<"m","a","x">>, listing_count |-> 5]>>

\* currentQuery.includedTags.some(t => t.name === tag.name) ? 'included' : ...
stateIn(currentQuery, tag) ==
  IF \E i \in DOMAIN currentQuery.includedTags : currentQuery.includedTags[i].name = tag.name
  THEN "included"
  ELSE IF \E i \in DOMAIN currentQuery.excludedTags :
            currentQuery.excludedTags[i].name = tag.name
  THEN "excluded"
  ELSE "unselected"

\* { ...rawData, tags: tagsWithState }
dataOf(currentQuery) ==
  [brand |-> currentQuery.brand,
   tags |-> map(ResponseTags, LAMBDA tag : withState(tag, stateIn(currentQuery, tag)))]

\* fetchBrandData up to its await: the results it sets and the requests then pending
fetchBrandData(currentQuery, pending) ==
  IF currentQuery.brand \in {null, <<>>}
  THEN [results |-> initialResults, inflight |-> pending]
  ELSE [results |-> [data |-> nullData, loading |-> TRUE, error |-> null],
        inflight |-> pending \cup {currentQuery}]

(***************************************************************************)
(* Inputs of the model                                                     *)
(***************************************************************************)
MaxTags == 4

MaxPrice == 50

MaxBaseline == 10

Tag(name, listingCount, medianPrice, p25Price, p75Price) ==
  [name |-> name, state |-> "unselected", listing_count |-> listingCount,
   median_price |-> medianPrice, p25_price |-> p25Price, p75_price |-> p75Price]

\* The tags a call may be given, in the order the upstream response lists them.
\* Scores are those against the estimate "100 kr".
TagUniverse == <<
  Tag(<<"a","i","r"," ","j","o","r","d","a","n"," ","1">>, 1000, 100, 80, 120), \* 0, verbose
  [name |-> <<"N","i","k","e"," ">>, state |-> "unselected",
   listing_count |-> 1000],                                                     \* no prices
  Tag(<<"s","t","r"," ","4","2">>, 500, 100, 90, 110),                          \* excluded
  Tag(<<"g","o","r","e","-","t","e","x">>, 300, 15, 10, 20),                    \* -10
  Tag(<<"j","o","r","d","a","n"," ","1">>, 1200, 100, 80, 120),                 \* 0
  Tag(<<"b","e","a","n","i","e">>, 20, 70, 0, 0),                               \* -2
  [name |-> <<"n","i","k","e">>, state |-> "unselected",
   median_price |-> 300, p25_price |-> 250, p75_price |-> 400],                 \* +8, no count
  Tag(<<"f","l","e","e","c","e">>, 1000, 10, 5, 15),                            \* -10
  Tag(<<"X","L">>, 2000, 150, 100, 200),                                        \* excluded
  Tag(<<"p","a","r","k","a">>, 40, 500, 400, 600)                               \* +10
>>

IndexOf(tag) == CHOOSE i \in DOMAIN TagUniverse : TagUniverse[i] = tag

SelectedInputs ==
  {<<>>,
   <<[name |-> <<"g","o","r","e","t","e","x">>, state |-> "included", listing_count |-> 900,
      median_price |-> 250]>>}

LabelInputs == {<<"1","0","0"," ","k","r">>, <<"k","r">>}

OrigEstimateInputs == {0, 50}

PriceInputs == 0..MaxPrice \cup {150, 5000}

BaselineInputs == 0..MaxBaseline \cup {1000}

(***************************************************************************)
(* The calls                                                               *)
(***************************************************************************)
Init ==
  /\ candidates = <<>>
  /\ selectedTags = <<>>
  /\ label = <<>>
  /\ origEstimate = 0
  /\ sortBy = "smart"
  /\ variant = "none"
  /\ out = <<>>
  /\ pc = "input"
  /\ pb = Rat(0, 1)
  /\ phist = <<>>
  /\ simStr1 = <<>>
  /\ simStr2 = <<>>
  /\ similarity = <<>>
  /\ swapped = <<>>
  /\ penalty = <<>>
  /\ prev = <<>>
  /\ exclName = <<>>
  /\ excluded = <<>>
  /\ heap = EmptyHeap
  /\ given = [unselectedTags |-> <<>>, selectedTags |-> <<>>]
  /\ returned = 0
  /\ allocated = 0
  /\ heapCalls = 0
  /\ hook = "useQueryState"
  /\ brand = null
  /\ includedTags = <<>>
  /\ excludedTags = <<>>
  /\ results = initialResults
  /\ inflight = {}
  /\ lastOp = [op |-> "none"]

\* the caller puts one more tag of the response into the candidate array
AddCandidate(i) ==
  /\ pc = "input"
  /\ Len(candidates) < MaxTags
  /\ IF candidates = <<>> THEN TRUE ELSE IndexOf(candidates[Len(candidates)]) < i
  /\ candidates' = Append(candidates, TagUniverse[i])
  /\ UNCHANGED <<selectedTags, label, origEstimate, sortBy, variant, out, pc, priceVars, simVars, prev, exclVars, heapVars, hookVars>>

\* a call of rankTags of src/lib/tag-ranking.ts
CallRankTags(sel, est, orig, mode) ==
  /\ pc = "input"
  /\ selectedTags' = sel
  /\ label' = est
  /\ origEstimate' = orig
  /\ sortBy' = mode
  /\ variant' = "pure"
  /\ out' = rankTags(candidates, sel, est, orig, mode)
  /\ pc' = "done"
  /\ UNCHANGED <<candidates, priceVars, simVars, prev, exclVars, heapVars, hookVars>>

\* a call of rankTags of the similarity variant
CallRankTagsSim(sel, est, orig, mode) ==
  /\ pc = "input"
  /\ selectedTags' = sel
  /\ label' = est
  /\ origEstimate' = orig
  /\ sortBy' = mode
  /\ variant' = "sim"
  /\ out' = rankTagsSim(candidates, sel, est, orig, mode)
  /\ pc' = "done"
  /\ UNCHANGED <<candidates, priceVars, simVars, prev, exclVars, heapVars, hookVars>>

Next ==
  \/ \E i \in DOMAIN TagUniverse : AddCandidate(i)
  \/ \E sel \in SelectedInputs, est \in LabelInputs, orig \in OrigEstimateInputs,
        mode \in {"smart", "listing_count"} : CallRankTags(sel, est, orig, mode)
  \/ \E sel \in SelectedInputs, est \in LabelInputs, orig \in OrigEstimateInputs,
        mode \in {"smart", "listing_count"} : CallRankTagsSim(sel, est, orig, mode)

Spec == Init /\ [][Next]_vars

(***************************************************************************)
(* The price impact scorer on its own: calls with one estimate and any      *)
(* tag median price, the last two kept                                     *)
(***************************************************************************)
InitPrice ==
  /\ candidates = <<>>
  /\ selectedTags = <<>>
  /\ label = <<>>
  /\ origEstimate = 0
  /\ sortBy = "smart"
  /\ variant = "none"
  /\ out = <<>>
  /\ pc = "input"
  /\ pb \in {Rat(b, 1) : b \in BaselineInputs}
  /\ phist = <<>>
  /\ simStr1 = <<>>
  /\ simStr2 = <<>>
  /\ similarity = <<>>
  /\ swapped = <<>>
  /\ penalty = <<>>
  /\ prev = <<>>
  /\ exclName = <<>>
  /\ excluded = <<>>
  /\ heap = EmptyHeap
  /\ given = [unselectedTags |-> <<>>, selectedTags |-> <<>>]
  /\ returned = 0
  /\ allocated = 0
  /\ heapCalls = 0
  /\ hook = "useQueryState"
  /\ brand = null
  /\ includedTags = <<>>
  /\ excludedTags = <<>>
  /\ results = initialResults
  /\ inflight = {}
  /\ lastOp = [op |-> "none"]

CallPriceImpact(price) ==
  /\ phist' = <<[price |-> price, score |-> calculatePriceImpactScore(price, pb)]>>
                \o slice0(phist, 1)
  /\ UNCHANGED <<pb, rankVars, simVars, prev, exclVars, heapVars, hookVars>>

NextPrice == \E price \in PriceInputs : CallPriceImpact(price)

SpecPrice == InitPrice /\ [][NextPrice]_vars

(***************************************************************************)
(* Smart-mode calls on tags of nearly equal price and listing count, given  *)
(* in any order: the sort within a bucket                                   *)
(***************************************************************************)
MaxOrderTags == 3

\* Against the estimate "100 kr" all five score 0; the percentages are 10, 11, 12, 15, 19.
OrderUniverse == <<
  Tag(<<"a","l","p","h","a">>, 1000, 110, 100, 120),
  Tag(<<"b","r","a","v","o">>, 800, 111, 100, 120),
  Tag(<<"d","e","l","t","a">>, 600, 112, 100, 120),
  Tag(<<"s","i","e","r","r","a">>, 400, 115, 100, 120),
  Tag(<<"k","i","l","o">>, 200, 119, 100, 120)
>>

OrderLabelInputs == {<<"1","0","0"," ","k","r">>}

\* the caller puts a tag of the response, not yet taken, into the candidate array
AddOrderCandidate(i) ==
  /\ pc = "input"
  /\ Len(candidates) < MaxOrderTags
  /\ \A k \in DOMAIN candidates : candidates[k] # OrderUniverse[i]
  /\ candidates' = Append(candidates, OrderUniverse[i])
  /\ UNCHANGED <<selectedTags, label, origEstimate, sortBy, variant, out, pc, priceVars, simVars, prev, exclVars, heapVars, hookVars>>

NextOrder ==
  \/ \E i \in DOMAIN OrderUniverse : AddOrderCandidate(i)
  \/ \E est \in OrderLabelInputs : CallRankTags(<<>>, est, 0, "smart")
  \/ \E est \in OrderLabelInputs : CallRankTagsSim(<<>>, est, 0, "smart")

SpecOrder == Init /\ [][NextOrder]_vars

(***************************************************************************)
(* filterTagsByPolarity on its own: a page of like tags, or none, followed  *)
(* by a few tags of different polarity, scored as the similarity variant    *)
(* scores them                                                              *)
(***************************************************************************)
MaxPolarityExtra == 3

NegativePageSize == 11

PositivePageSize == 149

\* n tags "item1" .. "item<n>" of one listing count and median price
Page(n, listingCount, medianPrice) ==
  AsSeq([i \in 1..n |->
    Tag(<<"i","t","e","m">> \o natToString(i), listingCount, medianPrice, 0, 0)])

\* no page, a page of negative tags with many listings, a page of neutral tags
PolarityPages ==
  {<<>>, Page(NegativePageSize, 300, 60), Page(PositivePageSize, 900, 100)}

\* Scores against "100 kr" with "goretex" selected: 1 (2 with a penalty of -1), 10,
\* -10 (60 listings), -2 (100 listings), -2 (300 listings)
PolarityUniverse == <<
  Tag(<<"g","o","r","i","l","l","a">>, 10, 120, 100, 140),
  Tag(<<"p","a","r","k","a">>, 40, 500, 400, 600),
  Tag(<<"f","l","e","e","c","e">>, 60, 10, 5, 15),
  Tag(<<"b","e","a","n","i","e">>, 100, 60, 50, 70),
  Tag(<<"s","c","a","r","f">>, 300, 60, 50, 70)
>>

IsPageTag(tag) == Len(tag.name) > 4 /\ SubSeq(tag.name, 1, 4) = <<"i","t","e","m">>

\* the scoring that rankTags of the similarity variant does before it filters
tagsWithScoresSim(unselectedTags, selected, currentEstimateString, originalBrandEstimate) ==
  LET currentEstimate == parseEstimate(currentEstimateString)
      baselineForScoring ==
        IF originalBrandEstimate # 0 THEN Rat(originalBrandEstimate, 1) ELSE currentEstimate
  IN map(unselectedTags, LAMBDA tag :
       withScore(tag, calculateTagScoreSim(tag, baselineForScoring, selected)))

InitPolarity ==
  /\ candidates \in PolarityPages
  /\ selectedTags = <<>>
  /\ label = <<>>
  /\ origEstimate = 0
  /\ sortBy = "smart"
  /\ variant = "none"
  /\ out = <<>>
  /\ pc = "input"
  /\ pb = Rat(0, 1)
  /\ phist = <<>>
  /\ simStr1 = <<>>
  /\ simStr2 = <<>>
  /\ similarity = <<>>
  /\ swapped = <<>>
  /\ penalty = <<>>
  /\ prev = <<>>
  /\ exclName = <<>>
  /\ excluded = <<>>
  /\ heap = EmptyHeap
  /\ given = [unselectedTags |-> <<>>, selectedTags |-> <<>>]
  /\ returned = 0
  /\ allocated = 0
  /\ heapCalls = 0
  /\ hook = "useQueryState"
  /\ brand = null
  /\ includedTags = <<>>
  /\ excludedTags = <<>>
  /\ results = initialResults
  /\ inflight = {}
  /\ lastOp = [op |-> "none"]

\* the caller puts a tag of the response, not yet taken, behind the page
AddPolarityCandidate(i) ==
  /\ pc = "input"
  /\ Len(SelectSeq(candidates, LAMBDA tag : ~IsPageTag(tag))) < MaxPolarityExtra
  /\ \A k \in DOMAIN candidates : candidates[k] # PolarityUniverse[i]
  /\ candidates' = Append(candidates, PolarityUniverse[i])
  /\ UNCHANGED <<selectedTags, label, origEstimate, sortBy, variant, out, pc, priceVars, simVars, prev, exclVars, heapVars, hookVars>>

\* the tags are scored and filterTagsByPolarity is called on them
CallFilterTagsByPolarity(sel, est) ==
  /\ pc = "input"
  /\ selectedTags' = sel
  /\ label' = est
  /\ variant' = "sim"
  /\ out' = filterTagsByPolarity(tagsWithScoresSim(candidates, sel, est, origEstimate))
  /\ pc' = "done"
  /\ UNCHANGED <<candidates, origEstimate, sortBy, priceVars, simVars, prev, exclVars, heapVars, hookVars>>

NextPolarity ==
  \/ \E i \in DOMAIN PolarityUniverse : AddPolarityCandidate(i)
  \/ \E sel \in SelectedInputs \ {<<>>}, est \in OrderLabelInputs :
       CallFilterTagsByPolarity(sel, est)

SpecPolarity == InitPolarity /\ [][NextPolarity]_vars

(***************************************************************************)
(* The similarity scorer on its own: two strings, a word or a few typed     *)
(* characters each, compared in both orders, and the penalty of the first   *)
(* against selected tags named by them                                      *)
(***************************************************************************)
MaxStrLen == 2

SimilarityAlphabet == {"a", "b", "A", CapitalIWithDot}

SimilarityWords ==
  {<<>>,
   <<"g","o","r","e","-","t","e","x">>, <<"g","o","r","e","t","e","x">>,
   <<"g","o","r","e">>, <<"c","o","r","e">>,
   <<"p","a","r","k","a">>, <<"p","a","n","t","s">>}

InitSimilarity ==
  /\ candidates = <<>>
  /\ selectedTags = <<>>
  /\ label = <<>>
  /\ origEstimate = 0
  /\ sortBy = "smart"
  /\ variant = "none"
  /\ out = <<>>
  /\ pc = "input"
  /\ pb = Rat(0, 1)
  /\ phist = <<>>
  /\ simStr1 \in SimilarityWords
  /\ simStr2 \in SimilarityWords
  /\ similarity = <<>>
  /\ swapped = <<>>
  /\ penalty = <<>>
  /\ prev = <<>>
  /\ exclName = <<>>
  /\ excluded = <<>>
  /\ heap = EmptyHeap
  /\ given = [unselectedTags |-> <<>>, selectedTags |-> <<>>]
  /\ returned = 0
  /\ allocated = 0
  /\ heapCalls = 0
  /\ hook = "useQueryState"
  /\ brand = null
  /\ includedTags = <<>>
  /\ excludedTags = <<>>
  /\ results = initialResults
  /\ inflight = {}
  /\ lastOp = [op |-> "none"]

TypeStr1(c) ==
  /\ similarity = <<>>
  /\ Len(simStr1) < MaxStrLen
  /\ simStr1' = Append(simStr1, c)
  /\ UNCHANGED <<simStr2, similarity, swapped, penalty, rankVars, priceVars, prev, exclVars, heapVars, hookVars>>

TypeStr2(c) ==
  /\ similarity = <<>>
  /\ Len(simStr2) < MaxStrLen
  /\ simStr2' = Append(simStr2, c)
  /\ UNCHANGED <<simStr1, similarity, swapped, penalty, rankVars, priceVars, prev, exclVars, heapVars, hookVars>>

CallCalculateSimilarity ==
  /\ similarity = <<>>
  /\ similarity' = <<calculateSimilarity(simStr1, simStr2)>>
  /\ UNCHANGED <<simStr1, simStr2, swapped, penalty, rankVars, priceVars, prev, exclVars, heapVars, hookVars>>

\* the call with the arguments the other way round
CallCalculateSimilaritySwapped ==
  /\ similarity # <<>>
  /\ swapped = <<>>
  /\ swapped' = <<calculateSimilarity(simStr2, simStr1)>>
  /\ UNCHANGED <<simStr1, simStr2, similarity, penalty, rankVars, priceVars, prev, exclVars, heapVars, hookVars>>

\* the selected tags a penalty may be taken against: none, the tag named simStr2, and that
\* tag before or behind another one
SelectedOf(name) ==
  LET named == [name |-> name, state |-> "included"]
      other == [name |-> <<"b","a">>, state |-> "included", listing_count |-> 900]
  IN {<<>>, <<named>>, <<named, other>>, <<other, named>>}

CallCalculateSimilarityPenalty(sel) ==
  /\ swapped # <<>>
  /\ penalty = <<>>
  /\ selectedTags' = sel
  /\ penalty' = <<calculateSimilarityPenalty(simStr1, sel)>>
  /\ UNCHANGED <<simStr1, simStr2, similarity, swapped, candidates, label, origEstimate, sortBy,
                 variant, out, pc, priceVars, prev, exclVars, heapVars, hookVars>>

NextSimilarity ==
  \/ \E c \in SimilarityAlphabet : TypeStr1(c)
  \/ \E c \in SimilarityAlphabet : TypeStr2(c)
  \/ CallCalculateSimilarity
  \/ CallCalculateSimilaritySwapped
  \/ \E sel \in SelectedOf(simStr2) : CallCalculateSimilarityPenalty(sel)

SpecSimilarity == InitSimilarity /\ [][NextSimilarity]_vars

(***************************************************************************)
(* rankTags called twice on the same candidate array                        *)
(***************************************************************************)
TwiceLabelInputs == OrderLabelInputs

\* what is kept of a call that returned: its arguments and its result
CallRecord ==
  [unselectedTags |-> candidates, selectedTags |-> selectedTags,
   currentEstimateString |-> label, originalBrandEstimate |-> origEstimate,
   sortBy |-> sortBy, result |-> out]

\* a second call of rankTags of lib/tag-ranking.ts
CallRankTagsAgain(sel, est, orig, mode) ==
  /\ pc = "done"
  /\ variant = "pure"
  /\ prev = <<>>
  /\ prev' = <<CallRecord>>
  /\ selectedTags' = sel
  /\ label' = est
  /\ origEstimate' = orig
  /\ sortBy' = mode
  /\ out' = rankTags(candidates, sel, est, orig, mode)
  /\ UNCHANGED <<candidates, variant, pc, priceVars, simVars, exclVars, heapVars, hookVars>>

\* a second call of rankTags of the similarity variant
CallRankTagsSimAgain(sel, est, orig, mode) ==
  /\ pc = "done"
  /\ variant = "sim"
  /\ prev = <<>>
  /\ prev' = <<CallRecord>>
  /\ selectedTags' = sel
  /\ label' = est
  /\ origEstimate' = orig
  /\ sortBy' = mode
  /\ out' = rankTagsSim(candidates, sel, est, orig, mode)
  /\ UNCHANGED <<candidates, variant, pc, priceVars, simVars, exclVars, heapVars, hookVars>>

NextTwice ==
  \/ \E i \in DOMAIN OrderUniverse : AddOrderCandidate(i)
  \/ \E sel \in SelectedInputs, est \in TwiceLabelInputs, orig \in OrigEstimateInputs,
        mode \in {"smart", "listing_count"} : CallRankTags(sel, est, orig, mode)
  \/ \E sel \in SelectedInputs, est \in TwiceLabelInputs, orig \in OrigEstimateInputs,
        mode \in {"smart", "listing_count"} : CallRankTagsSim(sel, est, orig, mode)
  \/ \E sel \in SelectedInputs, est \in TwiceLabelInputs, orig \in OrigEstimateInputs,
        mode \in {"smart", "listing_count"} : CallRankTagsAgain(sel, est, orig, mode)
  \/ \E sel \in SelectedInputs, est \in TwiceLabelInputs, orig \in OrigEstimateInputs,
        mode \in {"smart", "listing_count"} : CallRankTagsSimAgain(sel, est, orig, mode)

SpecTwice == Init /\ [][NextTwice]_vars

(***************************************************************************)
(* isTagExcluded on its own: an entry of the denylist with some letters     *)
(* in upper case and white space around it                                  *)
(***************************************************************************)
MaxEdits == 2

\* the upper-case letter of each lower-case letter that has one
UpperCaseOf ==
  [c \in {LowerCaseOf[u] : u \in DOMAIN LowerCaseOf} |->
     CHOOSE u \in DOMAIN LowerCaseOf : LowerCaseOf[u] = c]

\* how far the name is from the entry it was made of: its upper-case letters and the
\* white space around it
Edits(name) ==
  Cardinality({i \in DOMAIN name : name[i] \in DOMAIN LowerCaseOf})
    + (Len(name) - Len(trim(name)))

InitExcluded ==
  /\ candidates = <<>>
  /\ selectedTags = <<>>
  /\ label = <<>>
  /\ origEstimate = 0
  /\ sortBy = "smart"
  /\ variant = "none"
  /\ out = <<>>
  /\ pc = "input"
  /\ pb = Rat(0, 1)
  /\ phist = <<>>
  /\ simStr1 = <<>>
  /\ simStr2 = <<>>
  /\ similarity = <<>>
  /\ swapped = <<>>
  /\ penalty = <<>>
  /\ prev = <<>>
  /\ exclName \in ExcludedTagSet
  /\ excluded = <<>>
  /\ heap = EmptyHeap
  /\ given = [unselectedTags |-> <<>>, selectedTags |-> <<>>]
  /\ returned = 0
  /\ allocated = 0
  /\ heapCalls = 0
  /\ hook = "useQueryState"
  /\ brand = null
  /\ includedTags = <<>>
  /\ excludedTags = <<>>
  /\ results = initialResults
  /\ inflight = {}
  /\ lastOp = [op |-> "none"]

UpperCaseAt(i) ==
  /\ excluded = <<>>
  /\ Edits(exclName) < MaxEdits
  /\ exclName[i] \in DOMAIN UpperCaseOf
  /\ exclName' = [exclName EXCEPT ![i] = UpperCaseOf[@]]
  /\ UNCHANGED <<excluded, rankVars, priceVars, simVars, prev, heapVars, hookVars>>

PadStart(c) ==
  /\ excluded = <<>>
  /\ Edits(exclName) < MaxEdits
  /\ exclName' = <<c>> \o exclName
  /\ UNCHANGED <<excluded, rankVars, priceVars, simVars, prev, heapVars, hookVars>>

PadEnd(c) ==
  /\ excluded = <<>>
  /\ Edits(exclName) < MaxEdits
  /\ exclName' = Append(exclName, c)
  /\ UNCHANGED <<excluded, rankVars, priceVars, simVars, prev, heapVars, hookVars>>

CallIsTagExcluded ==
  /\ excluded = <<>>
  /\ excluded' = <<isTagExcluded(exclName)>>
  /\ UNCHANGED <<exclName, rankVars, priceVars, simVars, prev, heapVars, hookVars>>

NextExcluded ==
  \/ \E i \in DOMAIN exclName : UpperCaseAt(i)
  \/ \E c \in WhiteSpace : PadStart(c)
  \/ \E c \in WhiteSpace : PadEnd(c)
  \/ CallIsTagExcluded

SpecExcluded == InitExcluded /\ [][NextExcluded]_vars

(***************************************************************************)
(* rankTags called on arrays of the heap, once or again on the same arrays  *)
(***************************************************************************)
MaxHeapTags == 2

MaxHeapCalls == 2

\* the array of the unselected tags and the array of the selected tags
UnselectedArray == 1

SelectedArray == 2

HeapUniverse == <<
  Tag(<<"a","i","r"," ","j","o","r","d","a","n"," ","1">>, 1000, 100, 80, 120),
  Tag(<<"j","o","r","d","a","n"," ","1">>, 1200, 100, 80, 120),
  Tag(<<"s","t","r"," ","4","2">>, 500, 100, 90, 110),
  Tag(<<"g","o","r","e","-","t","e","x">>, 300, 15, 10, 20),
  Tag(<<"p","a","r","k","a">>, 40, 500, 400, 600)
>>

HeapSelected ==
  [name |-> <<"g","o","r","e","t","e","x">>, state |-> "included", listing_count |-> 900,
   median_price |-> 250]

InitHeap ==
  /\ candidates = <<>>
  /\ selectedTags = <<>>
  /\ label = <<>>
  /\ origEstimate = 0
  /\ sortBy = "smart"
  /\ variant = "none"
  /\ out = <<>>
  /\ pc = "input"
  /\ pb = Rat(0, 1)
  /\ phist = <<>>
  /\ simStr1 = <<>>
  /\ simStr2 = <<>>
  /\ similarity = <<>>
  /\ swapped = <<>>
  /\ penalty = <<>>
  /\ prev = <<>>
  /\ exclName = <<>>
  /\ excluded = <<>>
  /\ heap = newArray(newArray(EmptyHeap, <<>>), <<>>)
  /\ given = [unselectedTags |-> <<>>, selectedTags |-> <<>>]
  /\ returned = 0
  /\ allocated = 0
  /\ heapCalls = 0
  /\ hook = "useQueryState"
  /\ brand = null
  /\ includedTags = <<>>
  /\ excludedTags = <<>>
  /\ results = initialResults
  /\ inflight = {}
  /\ lastOp = [op |-> "none"]

\* the caller makes a tag object and puts it into the array of unselected tags
PushUnselected(i) ==
  /\ heapCalls = 0
  /\ Len(given.unselectedTags) < MaxHeapTags
  /\ \A k \in DOMAIN given.unselectedTags : given.unselectedTags[k] # HeapUniverse[i]
  /\ heap' = [heap EXCEPT !.objects = Append(@, HeapUniverse[i]),
                          !.arrays[UnselectedArray] = Append(@, Len(heap.objects) + 1)]
  /\ given' = [given EXCEPT !.unselectedTags = Append(@, HeapUniverse[i])]
  /\ UNCHANGED <<returned, allocated, heapCalls, rankVars, priceVars, simVars, prev, exclVars, hookVars>>

\* the caller makes the selected tag and puts it into the array of selected tags
PushSelected ==
  /\ heapCalls = 0
  /\ given.selectedTags = <<>>
  /\ heap' = [heap EXCEPT !.objects = Append(@, HeapSelected),
                          !.arrays[SelectedArray] = Append(@, Len(heap.objects) + 1)]
  /\ given' = [given EXCEPT !.selectedTags = Append(@, HeapSelected)]
  /\ UNCHANGED <<returned, allocated, heapCalls, rankVars, priceVars, simVars, prev, exclVars, hookVars>>

\* a call of rankTags of src/lib/tag-ranking.ts on the two arrays
CallRankTagsOnHeap(est, mode) ==
  /\ heapCalls < MaxHeapCalls
  /\ heap' = rankTagsOnHeap(heap, UnselectedArray, SelectedArray, est, 0, mode)
  /\ returned' = heap'.ret
  /\ allocated' = Len(heap.objects)
  /\ heapCalls' = heapCalls + 1
  /\ UNCHANGED <<given, rankVars, priceVars, simVars, prev, exclVars, hookVars>>

\* a call of rankTags of the similarity variant on the two arrays
CallRankTagsSimOnHeap(est, mode) ==
  /\ heapCalls < MaxHeapCalls
  /\ heap' = rankTagsSimOnHeap(heap, UnselectedArray, SelectedArray, est, 0, mode)
  /\ returned' = heap'.ret
  /\ allocated' = Len(heap.objects)
  /\ heapCalls' = heapCalls + 1
  /\ UNCHANGED <<given, rankVars, priceVars, simVars, prev, exclVars, hookVars>>

NextHeap ==
  \/ \E i \in DOMAIN HeapUniverse : PushUnselected(i)
  \/ PushSelected
  \/ \E est \in OrderLabelInputs, mode \in {"smart", "listing_count"} :
       CallRankTagsOnHeap(est, mode)
  \/ \E est \in OrderLabelInputs, mode \in {"smart", "listing_count"} :
       CallRankTagsSimOnHeap(est, mode)

SpecHeap == InitHeap /\ [][NextHeap]_vars

(***************************************************************************)
(* Calls with labels of any shape                                          *)
(***************************************************************************)
\* labels: the empty one, "ca. 5 kr", "1 200 kr" and "1.2.5"
TotalLabelInputs ==
  {<<>>,
   <<"c","a","."," ","5"," ","k","r">>,
   <<"1"," ","2","0","0"," ","k","r">>,
   <<"1",".","2",".","5">>}

NextTotal ==
  \/ \E i \in DOMAIN TagUniverse : AddCandidate(i)
  \/ \E sel \in SelectedInputs, est \in TotalLabelInputs, orig \in OrigEstimateInputs,
        mode \in {"smart", "listing_count"} : CallRankTags(sel, est, orig, mode)
  \/ \E sel \in SelectedInputs, est \in TotalLabelInputs, orig \in OrigEstimateInputs,
        mode \in {"smart", "listing_count"} : CallRankTagsSim(sel, est, orig, mode)

SpecTotal == Init /\ [][NextTotal]_vars

(***************************************************************************)
(* The selection hooks                                                     *)
(***************************************************************************)
MaxInFlight == 2

\* the tags the user picks from and the brands typed
SelectionTags ==
  {[name |-> <<"a","i","r">>, state |-> "unselected"],
   [name |-> <<"A","i","r">>, state |-> "unselected"],
   [name |-> <<"m","a","x">>, state |-> "unselected"]}

SelectionBrands == {<<"N","i","k","e"," ">>}

\* initialBrand of useTagSelection: undefined or "HM"
InitialBrands == {<<>>, <<"H","M">>}

query == [brand |-> brand, includedTags |-> includedTags, excludedTags |-> excludedTags]

\* useState(initialQuery) of useQueryState, useState(initialBrand || '') of useTagSelection
InitSelection ==
  /\ candidates = <<>>
  /\ selectedTags = <<>>
  /\ label = <<>>
  /\ origEstimate = 0
  /\ sortBy = "smart"
  /\ variant = "none"
  /\ out = <<>>
  /\ pc = "input"
  /\ pb = Rat(0, 1)
  /\ phist = <<>>
  /\ simStr1 = <<>>
  /\ simStr2 = <<>>
  /\ similarity = <<>>
  /\ swapped = <<>>
  /\ penalty = <<>>
  /\ prev = <<>>
  /\ exclName = <<>>
  /\ excluded = <<>>
  /\ heap = EmptyHeap
  /\ given = [unselectedTags |-> <<>>, selectedTags |-> <<>>]
  /\ returned = 0
  /\ allocated = 0
  /\ heapCalls = 0
  /\ hook \in {"useQueryState", "useTagSelection"}
  /\ brand \in IF hook = "useQueryState" THEN {null} ELSE InitialBrands
  /\ includedTags = <<>>
  /\ excludedTags = <<>>
  /\ results = initialResults
  /\ inflight = {}
  /\ lastOp = [op |-> "none"]

\* setQuery(q) and the effect that follows it: fetchBrandData(q)
SetQuery(q) ==
  /\ Cardinality(fetchBrandData(q, inflight).inflight) <= MaxInFlight
  /\ brand' = q.brand
  /\ includedTags' = q.includedTags
  /\ excludedTags' = q.excludedTags
  /\ results' = fetchBrandData(q, inflight).results
  /\ inflight' = fetchBrandData(q, inflight).inflight

\* setBrandState, setSelectedTags and setExcludedTags of useTagSelection
SetSelection(q) ==
  /\ brand' = q.brand
  /\ includedTags' = q.includedTags
  /\ excludedTags' = q.excludedTags
  /\ UNCHANGED <<results, inflight>>

SetBrand(newBrand) ==
  /\ IF hook = "useQueryState"
     THEN SetQuery(setBrand(newBrand))
     ELSE SetSelection(setBrandOfSelection(query, newBrand))
  /\ lastOp' = [op |-> "setBrand"]
  /\ UNCHANGED <<hook, rankVars, priceVars, simVars, prev, exclVars, heapVars>>

\* clearBrand: setQuery(initialQuery); setResults(initialResults)
ClearBrand ==
  /\ IF hook = "useQueryState"
     THEN SetQuery(initialQuery)
     ELSE SetSelection([brand |-> <<>>, includedTags |-> <<>>, excludedTags |-> <<>>])
  /\ lastOp' = [op |-> "clearBrand"]
  /\ UNCHANGED <<hook, rankVars, priceVars, simVars, prev, exclVars, heapVars>>

\* clearQuery of useQueryState
ClearQuery ==
  /\ hook = "useQueryState"
  /\ SetQuery(initialQuery)
  /\ lastOp' = [op |-> "clearQuery"]
  /\ UNCHANGED <<hook, rankVars, priceVars, simVars, prev, exclVars, heapVars>>

\* clearAllTags of useTagSelection
ClearAllTags ==
  /\ hook = "useTagSelection"
  /\ SetSelection([brand |-> brand, includedTags |-> <<>>, excludedTags |-> <<>>])
  /\ lastOp' = [op |-> "clearAllTags"]
  /\ UNCHANGED <<hook, rankVars, priceVars, simVars, prev, exclVars, heapVars>>

IncludeTag(tag) ==
  /\ IF hook = "useQueryState"
     THEN SetQuery(includeTag(query, tag))
     ELSE SetSelection(includeTag(query, tag))
  /\ lastOp' = [op |-> "includeTag", name |-> tag.name]
  /\ UNCHANGED <<hook, rankVars, priceVars, simVars, prev, exclVars, heapVars>>

ExcludeTag(tag) ==
  /\ IF hook = "useQueryState"
     THEN SetQuery(excludeTag(query, tag))
     ELSE SetSelection(excludeTag(query, tag))
  /\ lastOp' = [op |-> "excludeTag", name |-> tag.name]
  /\ UNCHANGED <<hook, rankVars, priceVars, simVars, prev, exclVars, heapVars>>

UnselectTag(tag) ==
  /\ IF hook = "useQueryState"
     THEN SetQuery(unselectTag(query, tag))
     ELSE SetSelection(unselectTag(query, tag))
  /\ lastOp' = [op |-> "unselectTag", name |-> tag.name]
  /\ UNCHANGED <<hook, rankVars, priceVars, simVars, prev, exclVars, heapVars>>

\* the request made for currentQuery is answered: fetchBrandData after its await
Resolve(currentQuery) ==
  /\ hook = "useQueryState"
  /\ currentQuery \in inflight
  /\ results' = [data |-> dataOf(currentQuery), loading |-> FALSE, error |-> null]
  /\ inflight' = inflight \ {currentQuery}
  /\ UNCHANGED <<hook, brand, includedTags, excludedTags, lastOp>>
  /\ UNCHANGED <<rankVars, priceVars, simVars, prev, exclVars, heapVars>>

\* the request made for currentQuery fails: the catch of fetchBrandData
Reject(currentQuery) ==
  /\ hook = "useQueryState"
  /\ currentQuery \in inflight
  /\ results' = [data |-> nullData, loading |-> FALSE, error |-> <<"Failed to fetch data">>]
  /\ inflight' = inflight \ {currentQuery}
  /\ UNCHANGED <<hook, brand, includedTags, excludedTags, lastOp>>
  /\ UNCHANGED <<rankVars, priceVars, simVars, prev, exclVars, heapVars>>

NextSelection ==
  \/ \E newBrand \in SelectionBrands : SetBrand(newBrand)
  \/ ClearBrand
  \/ ClearQuery
  \/ ClearAllTags
  \/ \E tag \in SelectionTags : IncludeTag(tag)
  \/ \E tag \in SelectionTags : ExcludeTag(tag)
  \/ \E tag \in SelectionTags : UnselectTag(tag)
  \/ \E currentQuery \in inflight : Resolve(currentQuery)
  \/ \E currentQuery \in inflight : Reject(currentQuery)

SpecSelection == InitSelection /\ [][NextSelection]_vars

(***************************************************************************)
(* Calls on tags with excluded siblings                                    *)
(***************************************************************************)
MaxVerboseTags == 3

\* "navy" is on the denylist; "navy parka" shares its core term and its price
VerboseUniverse == <<
  Tag(<<"n","a","v","y">>, 500, 100, 80, 120),
  Tag(<<"n","a","v","y"," ","p","a","r","k","a">>, 300, 100, 80, 120),
  Tag(<<"p","a","r","k","a">>, 40, 500, 400, 600),
  Tag(<<"f","l","e","e","c","e">>, 1000, 10, 5, 15)
>>

\* the caller puts one more tag of the response into the candidate array
AddVerboseCandidate(i) ==
  /\ pc = "input"
  /\ Len(candidates) < MaxVerboseTags
  /\ \A k \in DOMAIN candidates : candidates[k] # VerboseUniverse[i]
  /\ candidates' = Append(candidates, VerboseUniverse[i])
  /\ UNCHANGED <<selectedTags, label, origEstimate, sortBy, variant, out, pc, priceVars, simVars, prev, exclVars, heapVars, hookVars>>

NextVerbose ==
  \/ \E i \in DOMAIN VerboseUniverse : AddVerboseCandidate(i)
  \/ \E sel \in SelectedInputs, est \in OrderLabelInputs,
        mode \in {"smart", "listing_count"} : CallRankTags(sel, est, 0, mode)
  \/ \E sel \in SelectedInputs, est \in OrderLabelInputs,
        mode \in {"smart", "listing_count"} : CallRankTagsSim(sel, est, 0, mode)

SpecVerbose == Init /\ [][NextVerbose]_vars

(***************************************************************************)
(* Properties                                                              *)
(***************************************************************************)
Called == pc = "done"

\* the estimate the scores of the call are taken against
BaselineForScoring ==
  IF variant = "sim" /\ origEstimate # 0 THEN Rat(origEstimate, 1) ELSE parseEstimate(label)

PenaltyOf(tag) ==
  IF variant = "sim" THEN calculateSimilarityPenalty(tag.name, selectedTags) ELSE 0

ImpactOf(tag) == calculatePriceImpactScore(OrZero(tag, "median_price"), BaselineForScoring)

Clamp(x, lo, hi) == IF x < lo THEN lo ELSE IF x > hi THEN hi ELSE x

\* C1: every returned tag has rankScore = clamp(priceImpact + similarityPenalty, -10, 10),
\* the penalty being 0 in the variant without similarity; so rankScore is in [-10, 10]
C1_RankScoreClamped ==
  Called =>
    \A i \in DOMAIN out :
      /\ out[i].rankScore = Clamp(ImpactOf(out[i]) + PenaltyOf(out[i]), -10, 10)
      /\ out[i].rankScore >= -10
      /\ out[i].rankScore <= 10

\* a returned tag whose impact and penalty add up to less than -10
C1_Witness ==
  /\ Called
  /\ \E i \in DOMAIN out :
       /\ PenaltyOf(out[i]) < 0
       /\ ImpactOf(out[i]) + PenaltyOf(out[i]) < -10
       /\ out[i].rankScore = -10

\* n / d (d > 0) lies in the half-open interval [lo, hi)
InRange(n, d, lo, hi) == lo * d <= n /\ n < hi * d

\* the rows of the threshold table with both ends: <<lo, hi, score>>
ImpactTable ==
  {<<200, 400, 8>>, <<100, 200, 6>>, <<50, 100, 4>>, <<20, 50, 2>>, <<-20, 20, 0>>,
   <<-50, -20, -2>>, <<-60, -50, -4>>, <<-70, -60, -6>>, <<-80, -70, -8>>}

\* the score the table gives the percentage change n / d
TableScore(n, d) ==
  IF n >= 400 * d THEN 10
  ELSE IF n < -80 * d THEN -10
  ELSE (CHOOSE row \in ImpactTable : InRange(n, d, row[1], row[2]))[3]

\* C2: with a baseline > 0 the price impact is the score of the threshold table at
\* pctChange = (price - baseline) / baseline * 100; priceImpact(b, b) = 0, baseline
\* 1000 with price 5000 gives 10 and with price 150 gives -10
C2_PriceImpactTable ==
  pb.num > 0 =>
    \A k \in DOMAIN phist :
      LET price == phist[k].price
          n == (price * pb.den - pb.num) * 100
      IN /\ phist[k].score = TableScore(n, pb.num)
         /\ price * pb.den = pb.num => phist[k].score = 0
         /\ pb = Rat(1000, 1) /\ price = 5000 => phist[k].score = 10
         /\ pb = Rat(1000, 1) /\ price = 150 => phist[k].score = -10

\* baseline 1000: price 5000 scored 10 after price 150 scored -10
C2_Witness ==
  /\ pb = Rat(1000, 1)
  /\ Len(phist) = 2
  /\ phist[1] = [price |-> 5000, score |-> 10]
  /\ phist[2] = [price |-> 150, score |-> -10]

\* C3: with a baseline of 0 the price impact is 0 for every tag median price
C3_ZeroBaselineNeutral == pb.num = 0 => \A k \in DOMAIN phist : phist[k].score = 0

\* baseline 0: the prices 0 and 5000 both scored
C3_Witness ==
  /\ pb.num = 0
  /\ Len(phist) = 2
  /\ phist[1].price = 5000
  /\ phist[2].price = 0

\* C4: for a fixed baseline > 0 the price impact does not decrease with the price
C4_PriceImpactMonotone ==
  pb.num > 0 /\ Len(phist) = 2 /\ phist[1].price <= phist[2].price
    => phist[1].score <= phist[2].score

\* two calls with one baseline > 0, the higher price scored strictly higher
C4_Witness ==
  /\ pb.num > 0
  /\ Len(phist) = 2
  /\ phist[1].price < phist[2].price
  /\ phist[1].score < phist[2].score

\* isTagExcluded of the names a call may be given, worked out once
ExcludedNameTable == [i \in DOMAIN TagUniverse |-> isTagExcluded(TagUniverse[i].name)]

IsExcludedName(name) ==
  \E i \in DOMAIN TagUniverse : TagUniverse[i].name = name /\ ExcludedNameTable[i]

\* the candidates with the scores of the call
ScoredCandidates ==
  map(candidates, LAMBDA tag :
    withScore(tag, IF variant = "sim"
                   THEN calculateTagScoreSim(tag, BaselineForScoring, selectedTags)
                   ELSE calculateTagScore(tag, BaselineForScoring)))

\* the tags the smart mode hands to the classifier
ClassifierInput ==
  IF variant = "sim"
  THEN filterTagsByPolarity(ScoredCandidates)
  ELSE SelectSeq(ScoredCandidates, LAMBDA tag : ~IsExcludedName(tag.name))

PositionsOf(name) == {k \in DOMAIN out : out[k].name = name}

NamesOf(tags) == {tags[i].name : i \in DOMAIN tags}

ListingCountCall == Called /\ sortBy = "listing_count"

SmartCall == Called /\ sortBy = "smart"

\* C5: in listing_count mode no returned tag has an excluded name, and every candidate
\* that is not excluded is returned exactly once
C5_ListingCountDropsOnlyExcluded ==
  ListingCountCall =>
    /\ \A k \in DOMAIN out : ~IsExcludedName(out[k].name)
    /\ \A i \in DOMAIN candidates :
         ~IsExcludedName(candidates[i].name)
           => Cardinality(PositionsOf(candidates[i].name)) = 1
    /\ NamesOf(out) \subseteq NamesOf(candidates)

\* "str 42" (500 listings) among the candidates and absent from a non-empty output that
\* holds a tag of negative score
C5_Witness ==
  /\ ListingCountCall
  /\ \E i \in DOMAIN candidates :
       candidates[i].name = <<"s","t","r"," ","4","2">> /\ candidates[i].listing_count = 500
  /\ PositionsOf(<<"s","t","r"," ","4","2">>) = {}
  /\ \E k \in DOMAIN out : out[k].rankScore < 0
  /\ Len(out) = Len(candidates) - 1

\* C6: in listing_count mode the output is in order of listing count, high to low, a
\* missing count being 0, and tags of equal count are in alphabetical order of name
C6_ListingCountOrder ==
  ListingCountCall =>
    \A i, j \in DOMAIN out :
      i < j =>
        LET countI == OrZero(out[i], "listing_count")
            countJ == OrZero(out[j], "listing_count")
        IN \/ countI > countJ
           \/ countI = countJ /\ localeCompare(out[i].name, out[j].name) < 0

\* "fleece" returned right before "Nike " (both 1000 listings, given in the other order),
\* and the tag without a count last although its score is higher than the first tag's
C6_Witness ==
  /\ ListingCountCall
  /\ Len(out) = 4
  /\ \E i, j \in DOMAIN candidates :
       i < j /\ candidates[i].name = <<"N","i","k","e"," ">>
             /\ candidates[j].name = <<"f","l","e","e","c","e">>
  /\ \E i, j \in DOMAIN out :
       /\ i + 1 = j
       /\ out[i].name = <<"f","l","e","e","c","e">>
       /\ out[j].name = <<"N","i","k","e"," ">>
  /\ "listing_count" \notin DOMAIN out[4]
  /\ out[4].rankScore > out[1].rankScore

\* C7: in smart mode every excluded candidate is returned, behind every tag that is not
\* excluded
C7_ExcludedDemotedNotRemoved ==
  SmartCall =>
    \A i \in DOMAIN candidates :
      IsExcludedName(candidates[i].name) =>
        /\ PositionsOf(candidates[i].name) # {}
        /\ \A k \in PositionsOf(candidates[i].name), j \in DOMAIN out :
             ~IsExcludedName(out[j].name) => j < k

\* C8: in smart mode every tag that is not excluded and that the classifier marks verbose
\* is returned, once, behind every returned tag that went into a bucket
C8_VerboseKeptAtEnd ==
  SmartCall =>
    LET allTags == ClassifierInput
        verboseNames ==
          {allTags[i].name : i \in {k \in DOMAIN allTags :
             ~IsExcludedName(allTags[k].name) /\ isVerboseTag(allTags[k], allTags)}}
    IN \A name \in verboseNames :
         /\ Cardinality(PositionsOf(name)) = 1
         /\ \A k \in PositionsOf(name), j \in DOMAIN out :
              out[j].name \notin verboseNames => j < k

\* "air jordan 1" is verbose beside "jordan 1" and is returned last, behind a bucketed
\* tag of lower score
C8_Witness ==
  /\ SmartCall
  /\ Len(out) >= 3
  /\ isVerboseTag(out[Len(out)], ClassifierInput)
  /\ out[Len(out)].name = <<"a","i","r"," ","j","o","r","d","a","n"," ","1">>
  /\ \E j \in DOMAIN out : out[j].name = <<"j","o","r","d","a","n"," ","1">>
  /\ \E j \in DOMAIN out : out[j].rankScore < out[Len(out)].rankScore

\* the core terms of a name: the words between runs of white space, "-" and "_" of the
\* lower-cased name, without the words of at most 2 characters and the numbers
IsWordAt(name, i, j) ==
  /\ i <= j
  /\ \A k \in i..j : name[k] \notin WordSeparators
  /\ i = 1 \/ name[i - 1] \in WordSeparators
  /\ j = Len(name) \/ name[j + 1] \in WordSeparators

CoreTermSet(name) ==
  LET lower == toLowerCase(name)
      words == {SubSeq(lower, p[1], p[2]) :
                  p \in {q \in (DOMAIN lower) \X (DOMAIN lower) : IsWordAt(lower, q[1], q[2])}}
  IN {w \in words : Len(w) > 2 /\ \E k \in DOMAIN w : w[k] \notin Digits}

\* both median prices known and 10% or more apart, taken of the higher one
PricesDiffer(tag1, tag2) ==
  LET price1 == OrZero(tag1, "median_price")
      price2 == OrZero(tag2, "median_price")
      higher == IF price1 > price2 THEN price1 ELSE price2
  IN price1 > 0 /\ price2 > 0 /\ (price1 - price2 >= 0 => 10 * (price1 - price2) >= higher)
                              /\ (price2 - price1 >= 0 => 10 * (price2 - price1) >= higher)

SharesCore(tag1, tag2) ==
  CoreTermSet(tag1.name) \cap CoreTermSet(tag2.name) # {} /\ ~PricesDiffer(tag1, tag2)

HasShorterSibling(tag, allTags) ==
  \E i \in DOMAIN allTags :
    /\ allTags[i].name # tag.name
    /\ Len(allTags[i].name) < Len(tag.name)
    /\ SharesCore(tag, allTags[i])

BandOf(rankScore) ==
  LET a == IF rankScore < 0 THEN -rankScore ELSE rankScore
  IN IF a = 10 THEN 5 ELSE IF a >= 8 /\ a < 10 THEN 4 ELSE IF a >= 5 /\ a < 8 THEN 3
     ELSE IF a >= 2 /\ a < 5 THEN 2 ELSE 1

\* the positions of the returned tags that the classifier did not mark verbose
NormalPositions ==
  LET allTags == ClassifierInput
  IN {k \in DOMAIN out : ~IsExcludedName(out[k].name) /\ ~isVerboseTag(out[k], allTags)}

\* C10: in smart mode, of two normal tags of the output the one in the higher band of
\* abs(rankScore) comes first, except that the variant that spreads negative tags may
\* return a negative tag behind tags of lower bands
C10_BandOrderButSpreadNegatives ==
  SmartCall =>
    LET normal == NormalPositions
    IN \A i, j \in normal :
         i < j => \/ BandOf(out[i].rankScore) >= BandOf(out[j].rankScore)
                  \/ variant = "sim" /\ out[j].rankScore < 0

\* C10 as stated: of two normal tags of the output the one in the higher band comes first
C10_BandOrder ==
  SmartCall =>
    LET normal == NormalPositions
    IN \A i, j \in normal :
         i < j => BandOf(out[i].rankScore) >= BandOf(out[j].rankScore)

\* the spreading variant returns two tags of score -10, a tag of score 8 and then a third
\* tag of score -10, all normal
C10_Witness ==
  /\ SmartCall
  /\ variant = "sim"
  /\ Len(out) = 4
  /\ NormalPositions = 1..4
  /\ [k \in 1..4 |-> out[k].rankScore] = <<-10, -10, 8, -10>>

\* the group of the output that the k-th returned tag was sorted in: a bucket, or "V"
\* for the verbose tags
GroupOf(k) ==
  LET allTags == ClassifierInput
      normalTags == SelectSeq(allTags, LAMBDA tag :
                      ~IsExcludedName(tag.name) /\ ~isVerboseTag(tag, allTags))
      buckets == distribute(EmptyBuckets, normalTags).buckets
  IN IF isVerboseTag(out[k], allTags) THEN "V"
     ELSE IF variant = "sim"
          THEN CHOOSE b \in Range(BucketNames) : out[k].name \in NamesOf(buckets[b])
          ELSE BucketNames[6 - BandOf(out[k].rankScore)]

\* a may stand before b: the first of score, percentage and listing count that differs
\* by more than its threshold is higher in a, and if none does a's name is not longer
InThresholdOrder(a, b, scoreTenths, pct, count) ==
  LET scoreDiff == b.rankScore - a.rankScore
      countDiff == OrZero(b, "listing_count") - OrZero(a, "listing_count")
      pctDiff == b.priceImpactPercentage.num * a.priceImpactPercentage.den
                   - a.priceImpactPercentage.num * b.priceImpactPercentage.den
      pctUnit == a.priceImpactPercentage.den * b.priceImpactPercentage.den
  IN IF 10 * scoreDiff > scoreTenths \/ 10 * scoreDiff < -scoreTenths THEN scoreDiff < 0
     ELSE IF pctDiff > pct * pctUnit \/ pctDiff < -(pct * pctUnit) THEN pctDiff < 0
     ELSE IF countDiff > count \/ countDiff < -count THEN countDiff < 0
     ELSE Len(a.name) <= Len(b.name)

\* C11: of two tags returned in the same bucket, or both verbose, the earlier one may
\* stand before the later one by the thresholds of the variant: 0.1 / 1 / 50, and
\* 0.5 / 5 / 100 in the similarity variant
C11_SortedWithinBucket ==
  SmartCall =>
    \A i, j \in DOMAIN out :
      i < j /\ GroupOf(i) = GroupOf(j)
        => IF variant = "sim"
           THEN InThresholdOrder(out[i], out[j], 5, 5, 100)
           ELSE InThresholdOrder(out[i], out[j], 1, 1, 50)

\* the scored tags that filterTagsByPolarity was called on
PolarityInput == tagsWithScoresSim(candidates, selectedTags, label, origEstimate)

\* tag a is ahead of tag b by score, then by listing count
AheadByScoreThenCount(a, b) ==
  \/ a.rankScore > b.rankScore
  \/ a.rankScore = b.rankScore /\ OrZero(a, "listing_count") > OrZero(b, "listing_count")

\* C12: filterTagsByPolarity returns at most 150 tags, at most 10 of them negative, every
\* negative one with 200 listings or more, or with a score of -8 or less and 50 listings
\* or more; the non-negative tags returned are the first (total - negatives returned) of
\* the non-negative tags in the order of score, then listing count
C12_PolarityCap ==
  Called =>
    LET scored == PolarityInput
        nonNegative == SelectSeq(scored, LAMBDA tag : tag.rankScore >= 0)
        kept == SelectSeq(out, LAMBDA tag : tag.rankScore >= 0)
        negativesKept == Len(out) - Len(kept)
        total == IF Len(scored) < 150 THEN Len(scored) ELSE 150
        dropped == SelectSeq(nonNegative, LAMBDA tag : tag.name \notin NamesOf(kept))
    IN /\ Len(out) <= 150
       /\ negativesKept <= 10
       /\ \A k \in DOMAIN out :
            out[k].rankScore < 0 =>
              \/ OrZero(out[k], "listing_count") >= 200
              \/ out[k].rankScore <= -8 /\ OrZero(out[k], "listing_count") >= 50
       /\ NamesOf(kept) \subseteq NamesOf(nonNegative)
       /\ Len(kept) = IF Len(nonNegative) < total - negativesKept
                      THEN Len(nonNegative) ELSE total - negativesKept
       /\ \A i \in DOMAIN kept, j \in DOMAIN dropped : ~AheadByScoreThenCount(dropped[j], kept[i])

\* the normal tags of the call, in the order in which they are put into buckets
NormalTagsOfCall ==
  LET allTags == ClassifierInput
  IN SelectSeq(allTags, LAMBDA tag : ~IsExcludedName(tag.name) /\ ~isVerboseTag(tag, allTags))

\* the magnitude of a bucket: 5 for S down to 1 for D
MagnitudeOf(b) == 6 - (CHOOSE i \in DOMAIN BucketNames : BucketNames[i] = b)

\* a tag qualifies for the buckets of its own band and below
Qualifies(tag, b) == MagnitudeOf(b) <= BandOf(tag.rankScore)

\* the number of negative tags in a bucket that were put there before the k-th normal tag
NegativesBefore(normalTags, k, bucket) ==
  Cardinality({i \in 1..(k - 1) :
    normalTags[i].rankScore < 0 /\ normalTags[i].name \in NamesOf(bucket)})

\* C13: with negatives spread, a bucket holds at most 2 negative tags; a negative tag is
\* in the bucket of highest magnitude, of those it qualifies for, that held fewer than 2
\* negative tags when it was placed; a tag of score >= 0 is in the bucket of its own band
C13_NegativeSpreading ==
  SmartCall /\ variant = "sim" =>
    LET normalTags == NormalTagsOfCall
        buckets == distribute(EmptyBuckets, normalTags).buckets
    IN /\ \A b \in Range(BucketNames) :
            Len(SelectSeq(buckets[b], LAMBDA tag : tag.rankScore < 0)) <= 2
       /\ \A k \in DOMAIN normalTags, b \in Range(BucketNames) :
            normalTags[k].name \in NamesOf(buckets[b])
              <=> IF normalTags[k].rankScore >= 0
                  THEN MagnitudeOf(b) = BandOf(normalTags[k].rankScore)
                  ELSE /\ Qualifies(normalTags[k], b)
                       /\ NegativesBefore(normalTags, k, buckets[b]) < 2
                       /\ \A higher \in Range(BucketNames) :
                            Qualifies(normalTags[k], higher) /\ MagnitudeOf(higher) > MagnitudeOf(b)
                              => NegativesBefore(normalTags, k, buckets[higher]) = 2

\* C13 as stated: the negative tag is in the bucket of lowest magnitude, of those it
\* qualifies for, that held fewer than 2 negative tags when it was placed
C13_LowestMagnitudeBucket ==
  SmartCall /\ variant = "sim" =>
    LET normalTags == NormalTagsOfCall
        buckets == distribute(EmptyBuckets, normalTags).buckets
    IN /\ \A b \in Range(BucketNames) :
            Len(SelectSeq(buckets[b], LAMBDA tag : tag.rankScore < 0)) <= 2
       /\ \A k \in DOMAIN normalTags, b \in Range(BucketNames) :
            normalTags[k].name \in NamesOf(buckets[b])
              <=> IF normalTags[k].rankScore >= 0
                  THEN MagnitudeOf(b) = BandOf(normalTags[k].rankScore)
                  ELSE /\ Qualifies(normalTags[k], b)
                       /\ NegativesBefore(normalTags, k, buckets[b]) < 2
                       /\ \A lower \in Range(BucketNames) :
                            Qualifies(normalTags[k], lower) /\ MagnitudeOf(lower) < MagnitudeOf(b)
                              => NegativesBefore(normalTags, k, buckets[lower]) = 2

\* three normal tags of score -10 and one of score 8: two of the negative ones in S, the
\* third in A beside the positive one, all four returned
C13_Witness ==
  /\ SmartCall
  /\ variant = "sim"
  /\ Len(out) = 4
  /\ LET buckets == distribute(EmptyBuckets, NormalTagsOfCall).buckets
     IN /\ Len(buckets["S"]) = 2
        /\ \A i \in 1..2 : buckets["S"][i].rankScore = -10
        /\ Len(buckets["A"]) = 2
        /\ {buckets["A"][i].rankScore : i \in 1..2} = {8, -10}


(***************************************************************************)
(* The similarity scorer                                                   *)
(***************************************************************************)
RatEq(r, s) == r.num * s.den = s.num * r.den

SimilarityCalled == similarity # <<>>

\* C14: the similarity of a string with itself is 100, whether the string is empty or not.
C14_SelfSimilarity ==
  (SimilarityCalled /\ simStr1 = simStr2) => RatEq(similarity[1], Rat(100, 1))

C14_Witness ==
  /\ SimilarityCalled
  /\ simStr1 = simStr2
  /\ simStr1 = <<"g","o","r","e","-","t","e","x">>

\* C15: the similarity of a and b is the similarity of b and a.
C15_Symmetric ==
  (SimilarityCalled /\ swapped # <<>>) => RatEq(similarity[1], swapped[1])

C15_Witness ==
  /\ swapped # <<>>
  /\ simStr1 = <<"g","o","r","e","-","t","e","x">>
  /\ simStr2 = <<"g","o","r","e">>
  /\ RatEq(swapped[1], Rat(50, 1))

\* the classic edit distance: the fewest insertions, deletions and substitutions
RECURSIVE EditDistance(_, _)
EditDistance(a, b) ==
  IF a = <<>> THEN Len(b)
  ELSE IF b = <<>> THEN Len(a)
  ELSE Min(Min(EditDistance(Tail(a), b) + 1, EditDistance(a, Tail(b)) + 1),
           EditDistance(Tail(a), Tail(b)) + (IF Head(a) = Head(b) THEN 0 ELSE 1))

SimilarityByFormula ==
  LET d == EditDistance(toLowerCase(simStr1), toLowerCase(simStr2))
      maxLen == Max(Len(simStr1), Len(simStr2))
  IN maxLen > 0 => RatEq(similarity[1], Rat((maxLen - d) * 100, maxLen))

SimilarityInRange ==
  /\ similarity[1].num >= 0
  /\ similarity[1].num <= 100 * similarity[1].den

\* C16: the similarity is (maxLen - d) / maxLen * 100, d the edit distance of the
\* lower-cased strings and maxLen the larger of the two lengths, and lies in 0..100.
C16_SimilarityFormulaInRange ==
  SimilarityCalled => (SimilarityByFormula /\ SimilarityInRange)


PenaltyTable(r) ==
  IF r.num >= 85 * r.den THEN -6
  ELSE IF r.num >= 70 * r.den THEN -4
  ELSE IF r.num >= 55 * r.den THEN -2
  ELSE IF r.num >= 40 * r.den THEN -1
  ELSE 0

SimilarityTo(i) == calculateSimilarity(simStr1, selectedTags[i].name)

IsMaxSimilarity(i) ==
  \A k \in DOMAIN selectedTags :
    SimilarityTo(i).num * SimilarityTo(k).den >= SimilarityTo(k).num * SimilarityTo(i).den

GoreTexAgainstGoretex ==
  /\ simStr1 = <<"g","o","r","e","-","t","e","x">>
  /\ \E i \in DOMAIN selectedTags : selectedTags[i].name = <<"g","o","r","e","t","e","x">>

\* C17: the penalty is the table's value for the highest similarity of the name to a
\* selected tag (-6 from 85, -4 from 70, -2 from 55, -1 from 40, else 0), it is 0 with no
\* selected tags, and "gore-tex" against a selected "goretex" gets -4 or -6.
C17_PenaltyByMaxSimilarity ==
  penalty # <<>> =>
    /\ selectedTags = <<>> => penalty[1] = 0
    /\ selectedTags # <<>> =>
         \E i \in DOMAIN selectedTags :
           IsMaxSimilarity(i) /\ penalty[1] = PenaltyTable(SimilarityTo(i))
    /\ GoreTexAgainstGoretex => penalty[1] \in {-4, -6}

C17_Witness ==
  /\ penalty # <<>>
  /\ GoreTexAgainstGoretex
  /\ Len(selectedTags) = 2
  /\ selectedTags[1].name = <<"g","o","r","e","t","e","x">>
  /\ penalty[1] = -6


(***************************************************************************)
(* Two calls                                                               *)
(***************************************************************************)
CalledTwice == pc = "done" /\ prev # <<>>

SameListedArguments ==
  /\ prev[1].unselectedTags = candidates
  /\ prev[1].selectedTags = selectedTags
  /\ prev[1].currentEstimateString = label
  /\ prev[1].sortBy = sortBy

C19_DenylistEntryExcluded ==
  (excluded # <<>> /\ trim(toLowerCase(exclName)) \in ExcludedTagSet) => excluded[1]

C19_Witness ==
  /\ excluded # <<>>
  /\ excluded[1]
  /\ exclName = <<" ", "O", "r", "a", "n", "g", "e">>

(***************************************************************************)
(* Colours                                                                 *)
(***************************************************************************)
\* the classes from strong-positive down to negative, each with the least score it is
\* given to; strong-negative is given to every score below the last
ColorRows ==
  <<[from |-> 8, class |-> "text-green-600 font-semibold"],
    [from |-> 5, class |-> "text-green-500 font-medium"],
    [from |-> 2, class |-> "text-green-400"],
    [from |-> -1, class |-> "text-gray-400"],
    [from |-> -4, class |-> "text-orange-400"],
    [from |-> -7, class |-> "text-orange-500 font-medium"]>>

StrongNegative == "text-red-500 font-semibold"

ColorOfScore(score) ==
  IF \E k \in DOMAIN ColorRows : score >= ColorRows[k].from
  THEN ColorRows[CHOOSE k \in DOMAIN ColorRows :
                   /\ score >= ColorRows[k].from
                   /\ \A j \in 1..(k - 1) : score < ColorRows[j].from].class
  ELSE StrongNegative

\* C20: every returned tag carries the colour of its rankScore by the table (from 8, 5,
\* 2, -1, -4, -7, else strong-negative), so tags with one rankScore have one colour.
C20_ColorByScore ==
  Called =>
    /\ \A i \in DOMAIN out : out[i].color = ColorOfScore(out[i].rankScore)
    /\ \A score \in (-10)..10 : getScoreColor(score) = ColorOfScore(score)
    /\ \A i, j \in DOMAIN out :
         out[i].rankScore = out[j].rankScore => out[i].color = out[j].color

C20_Witness ==
  /\ Called
  /\ \E i, j, k \in DOMAIN out :
       /\ out[i].rankScore = 2 /\ out[i].color = "text-green-400"
       /\ out[j].rankScore = -10 /\ out[j].color = StrongNegative
       /\ out[k].rankScore = out[j].rankScore /\ k # j

(***************************************************************************)
(* The heap                                                                *)
(***************************************************************************)
CalledOnHeap == heapCalls > 0

\* C21: after any call the two argument arrays hold the same tags in the same order with
\* the same field values as the caller put there, and every returned tag is an object
\* made by that call.
C21_InputsNotMutated ==
  /\ elements(heap, UnselectedArray) = given.unselectedTags
  /\ elements(heap, SelectedArray) = given.selectedTags
  /\ CalledOnHeap => \A i \in DOMAIN heap.arrays[returned] : heap.arrays[returned][i] > allocated

C21_Witness ==
  /\ heapCalls = MaxHeapCalls
  /\ Len(given.unselectedTags) = MaxHeapTags
  /\ given.selectedTags # <<>>
  /\ Len(heap.arrays[returned]) = MaxHeapTags
  /\ elements(heap, returned)[1].name # given.unselectedTags[1].name
(***************************************************************************)
(* C22                                                                     *)
(***************************************************************************)
\* the number a reader takes from each label once everything but digits and dots is gone:
\* "" has none, "ca. 5 kr" leaves ".5", "1 200 kr" leaves "1200", "1.2.5" reads 1.2
NumberOfLabel(l) ==
  IF l = <<"c","a","."," ","5"," ","k","r">> THEN Rat(5, 10)
  ELSE IF l = <<"1"," ","2","0","0"," ","k","r">> THEN Rat(1200, 1)
  ELSE IF l = <<"1",".","2",".","5">> THEN Rat(12, 10)
  ELSE Rat(0, 1)

\* the baseline of the call, the label read by NumberOfLabel
BaselineByLabel ==
  IF variant = "sim" /\ origEstimate # 0 THEN Rat(origEstimate, 1) ELSE NumberOfLabel(label)

\* the price impact of a median price against BaselineByLabel, by the threshold table
ImpactByLabel(medianPrice) ==
  IF BaselineByLabel.num = 0 THEN 0
  ELSE TableScore((medianPrice * BaselineByLabel.den - BaselineByLabel.num) * 100,
                  BaselineByLabel.num)

\* the tag with 0 written into every numeric field it lacks
Filled(tag) ==
  tag @@ [listing_count |-> 0, median_price |-> 0, p25_price |-> 0, p75_price |-> 0]

\* what a call computes for a tag
Computed(tag) ==
  [name |-> tag.name, rankScore |-> tag.rankScore,
   priceImpactPercentage |-> tag.priceImpactPercentage,
   price_range |-> tag.price_range, color |-> tag.color]

\* the result of the same call on the candidates with their missing fields filled in
OutOfFilled ==
  IF variant = "sim"
  THEN rankTagsSim(map(candidates, Filled), selectedTags, label, origEstimate, sortBy)
  ELSE rankTags(map(candidates, Filled), selectedTags, label, origEstimate, sortBy)

\* C22: every call returns a list: its scores are taken against the number read from the
\* label with everything but digits and dots stripped (0 when there is none), a missing
\* median price, listing count or percentile price counts as 0, and no candidates give
\* an empty list.
C22_Total ==
  Called =>
    /\ DOMAIN out = 1..Len(out)
    /\ Len(out) <= Len(candidates)
    /\ candidates = <<>> => out = <<>>
    /\ \A i \in DOMAIN out :
         out[i].rankScore
           = Clamp(ImpactByLabel(OrZero(out[i], "median_price")) + PenaltyOf(out[i]), -10, 10)
    /\ map(out, Computed) = map(OutOfFilled, Computed)

\* "ca. 5 kr" read as 0.5 by a call given a tag without prices and one without a count
C22_Witness ==
  /\ Called
  /\ variant = "pure"
  /\ label = <<"c","a","."," ","5"," ","k","r">>
  /\ \E i, j \in DOMAIN out :
       /\ "median_price" \notin DOMAIN out[i]
       /\ out[i].rankScore = -10
       /\ "listing_count" \notin DOMAIN out[j]
       /\ out[j].rankScore = 10

(***************************************************************************)
(* C23                                                                     *)
(***************************************************************************)
Neutral == "text-gray-400"

ZeroBaselineCall == Called /\ BaselineForScoring.num = 0

\* C23 as stated: with a baseline of 0 every returned tag has rankScore 0,
\* priceImpactPercentage 0 and the neutral color, whatever its median price and whatever
\* the selected tags are.
C23_ZeroBaselineAllNeutral ==
  ZeroBaselineCall =>
    \A i \in DOMAIN out :
      /\ out[i].rankScore = 0
      /\ out[i].priceImpactPercentage = Rat(0, 1)
      /\ out[i].color = Neutral

\* C23, amended: with a baseline of 0 every returned tag has priceImpactPercentage 0 and
\* its similarity penalty as rankScore, whatever its median price: rankScore 0 and the
\* neutral color in the variant without similarity and for every tag without a penalty.
C23_ZeroBaselinePenaltyOnly ==
  ZeroBaselineCall =>
    \A i \in DOMAIN out :
      /\ out[i].priceImpactPercentage = Rat(0, 1)
      /\ out[i].rankScore = PenaltyOf(out[i])
      /\ out[i].rankScore = 0 => out[i].color = Neutral
      /\ variant = "pure" => out[i].rankScore = 0

\* a baseline of 0: a priced tag at 0 next to one the selected "goretex" pulls down
C23_Witness ==
  /\ ZeroBaselineCall
  /\ variant = "sim"
  /\ \E i, j \in DOMAIN out :
       /\ OrZero(out[i], "median_price") > 0
       /\ out[i].rankScore = 0
       /\ out[i].color = Neutral
       /\ out[j].rankScore < -1
       /\ out[j].color # Neutral

(***************************************************************************)
(* C24                                                                     *)
(***************************************************************************)
NameList(tags) == AsSeq([i \in 1..Len(tags) |-> tags[i].name])

NoRepeat(names) == \A i, j \in DOMAIN names : names[i] = names[j] => i = j

Air == <<"a","i","r">>

CapitalAir == <<"A","i","r">>

MaxName == <<"m","a","x">>

\* C24: after any sequence of setBrand, clearBrand, includeTag, excludeTag, unselectTag and
\* clearQuery / clearAllTags from the empty state, in either hook, no name is in both
\* lists and no name occurs twice within a list.
C24_DisjointNoDuplicates ==
  NoRepeat(NameList(includedTags) \o NameList(excludedTags))

\* "air" was excluded and is then included next to another included name
C24_Witness ==
  /\ lastOp = [op |-> "includeTag", name |-> Air]
  /\ NameList(includedTags) = <<MaxName, Air>>
  /\ NameList(excludedTags) = <<CapitalAir>>

(***************************************************************************)
(* C25                                                                     *)
(***************************************************************************)
\* C25: names that differ only in letter case are the same tag for the selection: no such
\* pair is in the two lists together or twice in one of them.
C25_SelectionIgnoresCase ==
  NoRepeat(map(NameList(includedTags) \o NameList(excludedTags), toLowerCase))

(***************************************************************************)
(* C29                                                                     *)
(***************************************************************************)
\* the names of a list other than the given one, in their order
OtherNames(tags, name) == SelectSeq(NameList(tags), LAMBDA n : n # name)

Listed(tags, name) == \E i \in DOMAIN tags : tags[i].name = name

\* the step leaves every name but the given one where it was, and the brand
OthersAndBrandKept(name) ==
  /\ OtherNames(includedTags', name) = OtherNames(includedTags, name)
  /\ OtherNames(excludedTags', name) = OtherNames(excludedTags, name)
  /\ brand' = brand

\* C29: a name is where the last operation on it put it: includeTag(t) leaves t included
\* and not excluded, excludeTag(t) excluded and not included, unselectTag(t) in neither
\* list; and each leaves the membership and the relative order of every other name, and
\* the brand, as they were.
C29_LastOperationDecides ==
  [][/\ lastOp'.op = "includeTag" =>
          /\ Listed(includedTags', lastOp'.name) /\ ~Listed(excludedTags', lastOp'.name)
          /\ OthersAndBrandKept(lastOp'.name)
     /\ lastOp'.op = "excludeTag" =>
          /\ Listed(excludedTags', lastOp'.name) /\ ~Listed(includedTags', lastOp'.name)
          /\ OthersAndBrandKept(lastOp'.name)
     /\ lastOp'.op = "unselectTag" =>
          /\ ~Listed(includedTags', lastOp'.name) /\ ~Listed(excludedTags', lastOp'.name)
          /\ OthersAndBrandKept(lastOp'.name)]_vars

\* "Air" is unselected between two other included names, under a brand
C29_Witness ==
  /\ lastOp = [op |-> "unselectTag", name |-> CapitalAir]
  /\ NameList(includedTags) = <<MaxName, Air>>
  /\ excludedTags = <<>>
  /\ brand = <<"n","i","k","e">>

(***************************************************************************)
(* C30                                                                     *)
(***************************************************************************)
\* C30: in useQueryState, once every request is answered the stored data are those of the
\* latest query, whatever order the answers came in, and results.data is null while the
\* brand is null.
C30_ResultsOfLatestQuery ==
  hook = "useQueryState" =>
    /\ inflight = {} /\ results.data # nullData => results.data = dataOf(query)
    /\ brand = null => results.data = nullData

(***************************************************************************)
(* C26                                                                     *)
(***************************************************************************)
ComputedFields == {"rankScore", "priceImpactPercentage", "price_range", "color"}

\* a returned tag without the fields the call added
AsGiven(tag) == [f \in DOMAIN tag \ ComputedFields |-> tag[f]]

\* the group of the output a returned tag stands in when its score alone decides it
BandGroups(tag) ==
  {g \in {"S", "A", "B", "C", "D"} :
     \/ g = "S" /\ Abs(tag.rankScore) >= 10
     \/ g = "A" /\ Abs(tag.rankScore) \in 8..9
     \/ g = "B" /\ Abs(tag.rankScore) \in 5..7
     \/ g = "C" /\ Abs(tag.rankScore) \in 2..4
     \/ g = "D" /\ Abs(tag.rankScore) \in 0..1}

PureSmartCall == SmartCall /\ variant = "pure"

\* C26: in smart mode of src/lib/tag-ranking.ts the output holds every candidate that is
\* not excluded exactly once, each in one group (verbose, or the one band its score is
\* in), and nothing else: its length is the number of candidates that are not excluded.
C26_SmartPermutation ==
  PureSmartCall =>
    /\ Len(out) = Cardinality({i \in DOMAIN candidates : ~IsExcludedName(candidates[i].name)})
    /\ \A i \in DOMAIN candidates :
         Cardinality({k \in DOMAIN out : AsGiven(out[k]) = candidates[i]})
           = IF IsExcludedName(candidates[i].name) THEN 0 ELSE 1
    /\ \A k \in DOMAIN out :
         /\ \E i \in DOMAIN candidates : AsGiven(out[k]) = candidates[i]
         /\ Cardinality(BandGroups(out[k])) = 1
         /\ GroupOf(k) \in BandGroups(out[k]) \cup {"V"}

\* four candidates, one excluded and one verbose, and a band of score 10 before band 0
C26_Witness ==
  /\ PureSmartCall
  /\ Len(candidates) = MaxTags
  /\ Len(out) = MaxTags - 1
  /\ GroupOf(1) = "S"
  /\ GroupOf(2) = "D"
  /\ GroupOf(Len(out)) = "V"

(***************************************************************************)
(* C27                                                                     *)
(***************************************************************************)
\* the tags the smart mode classifies, whatever their names
SmartInput ==
  IF variant = "sim"
  THEN filterTagsByPolarity(ScoredCandidates)
  ELSE SelectSeq(ScoredCandidates, LAMBDA tag : ~isTagExcluded(tag.name))

\* C27: in smart mode a returned tag that was classified verbose has a sibling in the
\* output: a returned tag of strictly shorter name that shares a core product with it.
C27_VerboseHasSiblingInOutput ==
  SmartCall =>
    \A k \in DOMAIN out :
      isVerboseTag(out[k], SmartInput) =>
        \E j \in DOMAIN out :
          /\ Len(out[j].name) < Len(out[k].name)
          /\ SharesCore(out[k], out[j])

(***************************************************************************)
(* C28                                                                     *)
(***************************************************************************)
\* C28: two calls of rankTags of src/lib/tag-ranking.ts that differ only in selectedTags
\* and originalBrandEstimate return the same list; in the similarity variant a
\* originalBrandEstimate other than 0 is the baseline in place of the label.
C28_IgnoresSelectedAndOriginal ==
  /\ (/\ CalledTwice
      /\ variant = "pure"
      /\ prev[1].unselectedTags = candidates
      /\ prev[1].currentEstimateString = label
      /\ prev[1].sortBy = sortBy) => out = prev[1].result
  /\ (Called /\ variant = "sim" /\ origEstimate # 0)
       => out = rankTagsSim(candidates, selectedTags, intToString(origEstimate), 0, sortBy)

\* two calls on three candidates, the second with other selected tags and another
\* originalBrandEstimate, and a price impact other than 0
C28_Witness ==
  /\ CalledTwice
  /\ variant = "pure"
  /\ prev[1].selectedTags # selectedTags
  /\ prev[1].originalBrandEstimate # origEstimate
  /\ prev[1].sortBy = sortBy
  /\ Len(out) = MaxOrderTags
  /\ \E k \in DOMAIN out : out[k].priceImpactPercentage.num # 0

====
